---- MODULE Spec2Model ----
(***************************************************************************)
(* Model of the activity-monitor agent: DataProcessor (normalisation,      *)
(* correlation, contributor profiles, action items) and MemoryService      *)
(* (date-keyed rolling context in a key-value store).                      *)
(*                                                                         *)
(* Strings are sequences of one-character strings, so that template        *)
(* formatting, toLowerCase, includes and the regular expressions of the    *)
(* source are computed, not assumed.                                       *)
(***************************************************************************)
EXTENDS Integers, Sequences, FiniteSets, TLC

(***************************************************************************)
(* Strings                                                                 *)
(***************************************************************************)
UpperChars == <<"A","B","C","D","E","F","G","H","I","J","K","L","M",
                "N","O","P","Q","R","S","T","U","V","W","X","Y","Z">>

LowerChars == <<"a","b","c","d","e","f","g","h","i","j","k","l","m",
                "n","o","p","q","r","s","t","u","v","w","x","y","z">>

DigitChars == <<"0","1","2","3","4","5","6","7","8","9">>

Range(f) == {f[i] : i \in DOMAIN f}

\* \d of the regular expressions
Digits == Range(DigitChars)

\* \w of the regular expressions: [A-Za-z0-9_]
WordChars == Range(UpperChars) \cup Range(LowerChars) \cup Digits \cup {"_"}

IsWordChar(c) == c \in WordChars

\* \s of the regular expressions (the texts of the model use the blank only)
IsSpace(c) == c = " "

\* upper-case letter -> lower-case letter
LowerOf == [c \in Range(UpperChars) |->
               LowerChars[CHOOSE i \in DOMAIN UpperChars : UpperChars[i] = c]]

LowerChar(c) == IF c \in DOMAIN LowerOf THEN LowerOf[c] ELSE c

\* String.prototype.toLowerCase
ToLowerCase(s) == [i \in DOMAIN s |-> LowerChar(s[i])]

\* s.startsWith(sub, i) with a 1-based position
MatchesAt(s, sub, i) ==
    /\ i + Len(sub) - 1 <= Len(s)
    /\ \A k \in 1..Len(sub) : s[i + k - 1] = sub[k]

\* String.prototype.includes: the empty string is included in every string
Includes(s, sub) == \E i \in 1..(Len(s) + 1) : MatchesAt(s, sub, i)

RECURSIVE NatDigits(_)
NatDigits(n) == IF n < 10 THEN <<DigitChars[n + 1]>>
                ELSE NatDigits(n \div 10) \o <<DigitChars[(n % 10) + 1]>>

\* `${number}` for a non-negative integer
NumToString(n) == NatDigits(n)

\* the positions of a sequence that pass the test, in ascending order
Positions(seq, Test(_)) == SelectSeq([i \in DOMAIN seq |-> i], Test)

RECURSIVE ForEach(_, _, _, _, _)
\* for (const x of seq.slice(lo - 1, hi)) acc = Step(acc, x): the loop over
\* the first half of the range comes to its value before the loop over the
\* second half starts from it
ForEach(Step(_, _), acc, seq, lo, hi) ==
    IF lo > hi THEN acc
    ELSE IF lo = hi THEN Step(acc, seq[lo])
    ELSE LET mid == (lo + hi) \div 2
             first == ForEach(Step, acc, seq, lo, mid)
         IN  IF first = first THEN ForEach(Step, first, seq, mid + 1, hi) ELSE first

\* Array.prototype.join(sep)
JoinWith(parts, sep) ==
    IF Len(parts) = 0 THEN <<>>
    ELSE ForEach(LAMBDA joined, part : joined \o sep \o part, parts[1], parts, 2, Len(parts))

\* the elements of a sequence from the last to the first
Reversed(seq) == [i \in DOMAIN seq |-> seq[Len(seq) + 1 - i]]

\* sorted with x put before the first element that does not come Before(_, x)
InsertBefore(Before(_, _), sorted, x) ==
    LET stops == {i \in DOMAIN sorted : ~Before(sorted[i], x)}
        k == IF stops = {} THEN Len(sorted) + 1
             ELSE CHOOSE i \in stops : \A j \in stops : i <= j
    IN  SubSeq(sorted, 1, k - 1) \o <<x>> \o SubSeq(sorted, k, Len(sorted))

\* Array.prototype.filter
Filter(seq, Test(_)) == SelectSeq(seq, Test)

\* Array.prototype.slice(0, n)
SliceFirst(seq, n) == SubSeq(seq, 1, IF Len(seq) < n THEN Len(seq) ELSE n)

\* Array.prototype.slice(-n)
SliceLast(seq, n) == SubSeq(seq, (IF Len(seq) > n THEN Len(seq) - n + 1 ELSE 1), Len(seq))

\* an optional string field that is not set (undefined): no string of the
\* model, which are sequences of single characters, equals it
Undefined == <<"undefined">>

\* an optional array-of-strings field that is not set
UndefinedList == <<Undefined>>

\* JavaScript Map: the entries <<key, value>> in insertion order
MapHas(m, k) == \E i \in DOMAIN m : m[i][1] = k

MapGet(m, k) == m[CHOOSE i \in DOMAIN m : m[i][1] = k][2]

\* Map.prototype.set: a present key keeps its place, a new key goes last
MapSet(m, k, v) ==
    IF MapHas(m, k)
    THEN [m EXCEPT ![CHOOSE i \in DOMAIN m : m[i][1] = k] = <<k, v>>]
    ELSE Append(m, <<k, v>>)

MapKeys(m) == [i \in DOMAIN m |-> m[i][1]]

MapValues(m) == [i \in DOMAIN m |-> m[i][2]]

\* the distinct elements of a sequence, in order of first occurrence
\* (new Set(seq) spread to an array)
Distinct(seq) ==
    LET firsts == Positions(seq, LAMBDA i : \A j \in 1..(i - 1) : seq[j] # seq[i])
    IN  [n \in DOMAIN firsts |-> seq[firsts[n]]]

(***************************************************************************)
(* Events                                                                  *)
(***************************************************************************)
GITHUB == <<"g","i","t","h","u","b">>

SLACK == <<"s","l","a","c","k">>

LINEAR == <<"l","i","n","e","a","r">>

DISCORD == <<"d","i","s","c","o","r","d">>

\* ActivityEventSchema.type
Platforms == {GITHUB, SLACK, LINEAR, DISCORD}

PRIORITY_LOW == <<"l","o","w">>

PRIORITY_MEDIUM == <<"m","e","d","i","u","m">>

PRIORITY_HIGH == <<"h","i","g","h">>

PRIORITY_URGENT == <<"u","r","g","e","n","t">>

\* ActivityEventSchema.priority
Priorities == {PRIORITY_LOW, PRIORITY_MEDIUM, PRIORITY_HIGH, PRIORITY_URGENT}

\* subtypes the collectors produce
PR_OPENED == <<"p","r","_","o","p","e","n","e","d">>

PR_MERGED == <<"p","r","_","m","e","r","g","e","d">>

PR_REVIEW_REQUESTED == <<"p","r","_","r","e","v","i","e","w","_","r","e","q","u","e","s","t","e","d">>

PR_REVIEWED == <<"p","r","_","r","e","v","i","e","w","e","d">>

ISSUE_OPENED == <<"i","s","s","u","e","_","o","p","e","n","e","d">>

ISSUE_CREATED == <<"i","s","s","u","e","_","c","r","e","a","t","e","d">>

URGENT_ISSUE == <<"u","r","g","e","n","t","_","i","s","s","u","e">>

MESSAGE_SENT == <<"m","e","s","s","a","g","e","_","s","e","n","t">>

REACTION_ADDED == <<"r","e","a","c","t","i","o","n","_","a","d","d","e","d">>

\* metadata of an event: the fields the processor reads
\* (a number that is not set is 0: undefined and 0 are both falsy where the
\* processor tests them)
NoMetadata == [identifier |-> Undefined, issue_id |-> Undefined,
               pr_number |-> 0, issue_number |-> 0]

\* an event as a collector builds it; the optional fields start undefined
BaseEvent(id, type, subtype, authorId, timestamp, title) ==
    [id |-> id, type |-> type, subtype |-> subtype,
     author |-> [id |-> authorId, name |-> authorId],
     timestamp |-> timestamp, title |-> title, description |-> Undefined,
     url |-> Undefined, priority |-> PRIORITY_MEDIUM,
     labels |-> <<>>, assignees |-> <<>>, metadata |-> NoMetadata,
     repository |-> Undefined, project |-> Undefined, channel |-> Undefined]

\* x || fallback for an optional string: undefined and '' are falsy
OrElse(x, fallback) == IF x = Undefined \/ x = <<>> THEN fallback ELSE x

\* x || [] for an optional array: an array, also an empty one, is truthy
OrEmptyList(x) == IF x = UndefinedList THEN <<>> ELSE x

OfType(events, type) == SelectSeq(events, LAMBDA e : e.type = type)

\* `${event.title} ${event.description || ''}`
EventText(e) == e.title \o <<" ">> \o OrElse(e.description, <<>>)

(***************************************************************************)
(* DataProcessor.normalizeEvents                                           *)
(***************************************************************************)
\* the wrong key a slip would give: the author is left out
EventKeyNoAuthor(e) ==
    e.type \o <<"_">> \o e.subtype \o <<"_">> \o NumToString(e.timestamp)

\* `${event.type}_${event.subtype}_${event.author.id}_${event.timestamp.getTime()}`
EventKey(e) ==
    e.type \o <<"_">> \o e.subtype \o <<"_">> \o e.author.id \o <<"_">>
        \o NumToString(e.timestamp)

\* the value stored for a new key: the event with its containers defaulted
\* (metadata is an object in every event the collectors build, and
\* event.metadata || {} leaves an object as it is)
WithDefaults(e) ==
    [e EXCEPT !.labels = OrEmptyList(e.labels),
              !.assignees = OrEmptyList(e.assignees)]

\* the Map uniqueEvents after the loop over events
UniqueEvents(events) ==
    LET AddEvent(m, e) == IF MapHas(m, EventKey(e)) THEN m
                          ELSE MapSet(m, EventKey(e), WithDefaults(e))
    IN  ForEach(AddEvent, <<>>, events, 1, Len(events))

InsertByTimestampDesc(sorted, e) ==
    InsertBefore(LAMBDA a, b : a.timestamp > b.timestamp, sorted, e)

\* .sort((a, b) => b.timestamp.getTime() - a.timestamp.getTime()), stable:
\* events of equal timestamp keep their order
SortByTimestampDesc(events) ==
    ForEach(InsertByTimestampDesc, <<>>, Reversed(events), 1, Len(events))

\* the events sorted without the Map: every event of the input is kept
SortedWithoutDedup(events) ==
    SortByTimestampDesc([i \in DOMAIN events |-> WithDefaults(events[i])])

normalizeEvents(events) == SortByTimestampDesc(MapValues(UniqueEvents(events)))

(***************************************************************************)
(* Text matching of the correlation passes                                 *)
(***************************************************************************)
\* \b between position i - 1 and i of s where s[i] is a word character
StartsWord(s, i) == i = 1 \/ ~IsWordChar(s[i - 1])

\* \b after a word character that ends at position j - 1
EndsWord(s, j) == j > Len(s) \/ ~IsWordChar(s[j])

\* the position after the longest run of characters of class cls from i on
RunEnd(s, i, cls) ==
    IF i > Len(s) THEN i
    ELSE CHOOSE j \in i..(Len(s) + 1) :
             /\ j > Len(s) \/ s[j] \notin cls
             /\ \A k \in i..(j - 1) : s[k] \in cls

\* text.match(/\b\w{4,}\b/g) || []: the maximal runs of word characters that
\* are at least 4 long, one entry per occurrence
Words4(text) ==
    LET starts == Positions(text, LAMBDA i : /\ IsWordChar(text[i])
                                             /\ StartsWord(text, i)
                                             /\ RunEnd(text, i, WordChars) - i >= 4)
    IN  [n \in DOMAIN starts |->
            SubSeq(text, starts[n], RunEnd(text, starts[n], WordChars) - 1)]

\* text.match(/.../g) || [] for a pattern that matches at position i up to
\* MatchEnd(i) - 1, and not at all where MatchEnd(i) is 0: the matches from
\* left to right, the scan going on after the end of each match
GlobalMatches(s, MatchEnd(_)) ==
    LET starts == Positions(s, LAMBDA i : MatchEnd(i) # 0)
        Take(acc, i) ==
            IF i < acc.next THEN acc
            ELSE [found |-> Append(acc.found, SubSeq(s, i, MatchEnd(i) - 1)),
                  next |-> MatchEnd(i)]
    IN  ForEach(Take, [found |-> <<>>, next |-> 1], starts, 1, Len(starts)).found

\* (\d+|\w{8})\b at position q: the position after the match, 0 when none.
\* \d+ is greedy and a shorter run of digits ends before a digit, where \b fails
RefTailEnd(s, q) ==
    LET d == RunEnd(s, q, Digits)
    IN  IF d > q /\ EndsWord(s, d) THEN d
        ELSE IF /\ q + 7 <= Len(s)
                /\ \A k \in q..(q + 7) : IsWordChar(s[k])
                /\ EndsWord(s, q + 8)
             THEN q + 8
             ELSE 0

\* [-\s]?(\d+|\w{8})\b at position p: with the separator first, then without
RefSepTailEnd(s, p) ==
    LET withSep == IF p <= Len(s) /\ (s[p] = "-" \/ IsSpace(s[p]))
                   THEN RefTailEnd(s, p + 1) ELSE 0
    IN  IF withSep # 0 THEN withSep ELSE RefTailEnd(s, p)

\* /\b(lin|linear)[-\s]?(\d+|\w{8})\b/ at position i of a lower-case text:
\* the position after the match, 0 when there is none
LinearRefEnd(s, i) ==
    IF ~StartsWord(s, i) THEN 0
    ELSE LET short == IF MatchesAt(s, <<"l","i","n">>, i)
                      THEN RefSepTailEnd(s, i + 3) ELSE 0
             long == IF MatchesAt(s, LINEAR, i)
                     THEN RefSepTailEnd(s, i + 6) ELSE 0
         IN  IF short # 0 THEN short ELSE long

\* prText.match(/\b(lin|linear)[-\s]?(\d+|\w{8})\b/gi) || []
LinearRefs(prText) == GlobalMatches(prText, LAMBDA i : LinearRefEnd(prText, i))

LINEAR_APP == <<"l","i","n","e","a","r",".","a","p","p","/">>

\* linear\.app\/[^\s]+ at position i: the position after the match, 0 when
\* there is none
LinearUrlEnd(s, i) ==
    LET p == i + Len(LINEAR_APP)
        j == RunEnd(s, p, Range(s) \ {" "})
    IN  IF MatchesAt(s, LINEAR_APP, i) /\ j > p THEN j ELSE 0

\* prText.match(/linear\.app\/[^\s]+/gi) || []
LinearUrls(prText) == GlobalMatches(prText, LAMBDA i : LinearUrlEnd(prText, i))

(***************************************************************************)
(* The Text-Intelligence collaborator (generateObject)                     *)
(***************************************************************************)
\* An answer is [ok, object]: ok = FALSE is a call that fails (network, rate
\* limit, no parsable object), and object is what the model produced.
\* generateObject validates the object against the schema of the call and
\* throws when it does not conform.
GenerateObject(answer, SchemaOk(_)) ==
    [threw |-> ~(answer.ok /\ SchemaOk(answer.object)), object |-> answer.object]

(***************************************************************************)
(* DataProcessor.findCorrelations and its three passes                     *)
(* A confidence is kept in tenths: 8 is 0.8, 10 is 1.                      *)
(***************************************************************************)
STR_PR == <<"p","r">>

\* e.subtype?.includes('pr')
IsPrEvent(e) == Includes(e.subtype, STR_PR)

\* linearEvent.metadata?.identifier || linearEvent.metadata?.issue_id
LinearIdOf(linearEvent) ==
    OrElse(linearEvent.metadata.identifier, linearEvent.metadata.issue_id)

\* `${x}` of an optional string
Interpolate(x) == IF x = Undefined THEN <<"u","n","d","e","f","i","n","e","d">> ELSE x

\* `${n}` of an optional number (0 stands for one that is not set)
InterpolateNum(n) == IF n = 0 THEN Interpolate(Undefined) ELSE NumToString(n)

PR_LINEAR_ == <<"p","r","_","l","i","n","e","a","r","_">>

\* linearRefs.some(ref => ref.toLowerCase().includes(linearId?.toLowerCase() || ''))
\*   || linearUrls.some(url => url.includes(linearId || '') || url.includes(linearEvent.id))
IsReferenced(linearRefs, linearUrls, linearEvent) ==
    LET linearId == LinearIdOf(linearEvent)
    IN  \/ \E r \in DOMAIN linearRefs :
               Includes(ToLowerCase(linearRefs[r]), OrElse(ToLowerCase(linearId), <<>>))
        \/ \E u \in DOMAIN linearUrls :
               \/ Includes(linearUrls[u], OrElse(linearId, <<>>))
               \/ Includes(linearUrls[u], linearEvent.id)

\* confidence of a pass-1 correlation: 0.8
PrLinearConfidence == 8

\* the correlation pushed for a PR event and a tracker event it references
PrLinearCorrelation(prEvent, linearEvent, linearRefs, linearUrls) ==
    [id |-> PR_LINEAR_ \o prEvent.id \o <<"_">> \o linearEvent.id,
     events |-> <<prEvent.id, linearEvent.id>>,
     type |-> "pr_to_linear",
     confidence |-> PrLinearConfidence,
     description |-> <<"P","R"," ">> \o InterpolateNum(prEvent.metadata.pr_number)
                        \o <<" ","r","e","l","a","t","e","s"," ","t","o"," ",
                             "L","i","n","e","a","r"," ","i","s","s","u","e"," ">>
                        \o Interpolate(LinearIdOf(linearEvent)),
     keywords |-> linearRefs \o linearUrls]

\* the concatenation of a sequence of sequences
Concat(seqs) == ForEach(LAMBDA all, seq : all \o seq, <<>>, seqs, 1, Len(seqs))

\* the correlations one PR event contributes: one per referenced tracker event
PrCorrelations(prEvent, linearEvents) ==
    LET prText == ToLowerCase(EventText(prEvent))
        linearRefs == LinearRefs(prText)
        linearUrls == LinearUrls(prText)
    IN  Concat([l \in DOMAIN linearEvents |->
                   IF IsReferenced(linearRefs, linearUrls, linearEvents[l])
                   THEN <<PrLinearCorrelation(prEvent, linearEvents[l], linearRefs, linearUrls)>>
                   ELSE <<>>])

\* pass 1
findPRLinearCorrelations(githubEvents, linearEvents) ==
    LET prEvents == SelectSeq(githubEvents, IsPrEvent)
    IN  Concat([p \in DOMAIN prEvents |-> PrCorrelations(prEvents[p], linearEvents)])

\* .slice(0, 50) of the chat events handed to the collaborator
SlackBatchLimit == 50

ReferenceTypes == {"pr", "issue", "commit", "repository"}

\* the schema of the reference-extraction call without the bounds on confidence
RefsSchemaUnbounded(object) ==
    \A i \in DOMAIN object.correlations :
        object.correlations[i].reference_type \in ReferenceTypes

\* the schema of the reference-extraction call: reference_type is one of the
\* enum, confidence is z.number().min(0).max(1)
RefsSchemaOk(object) ==
    \A i \in DOMAIN object.correlations :
        /\ object.correlations[i].reference_type \in ReferenceTypes
        /\ object.correlations[i].confidence >= 0
        /\ object.correlations[i].confidence <= 10

\* the filter of findSlackGithubCorrelations: does githubEvent match the reference
MatchesReference(correlation, githubEvent) ==
    LET prNumber == githubEvent.metadata.pr_number
        issueNumber == githubEvent.metadata.issue_number
        repo == githubEvent.repository
    IN  CASE correlation.reference_type = "pr" ->
                 prNumber # 0 /\ Includes(correlation.github_reference, NumToString(prNumber))
          [] correlation.reference_type = "issue" ->
                 issueNumber # 0 /\ Includes(correlation.github_reference, NumToString(issueNumber))
          [] correlation.reference_type = "repository" ->
                 /\ repo # Undefined /\ repo # <<>>
                 /\ Includes(ToLowerCase(correlation.github_reference), ToLowerCase(repo))
          [] OTHER -> FALSE

SLACK_GITHUB_ == <<"s","l","a","c","k","_","g","i","t","h","u","b","_">>

ReferenceTypeText(t) ==
    CASE t = "pr" -> STR_PR
      [] t = "issue" -> <<"i","s","s","u","e">>
      [] t = "commit" -> <<"c","o","m","m","i","t">>
      [] OTHER -> <<"r","e","p","o","s","i","t","o","r","y">>

SlackGithubCorrelation(correlation, githubEvent) ==
    [id |-> SLACK_GITHUB_ \o correlation.slack_event_id \o <<"_">> \o githubEvent.id,
     events |-> <<correlation.slack_event_id, githubEvent.id>>,
     type |-> "slack_to_github",
     confidence |-> correlation.confidence,
     description |-> <<"S","l","a","c","k"," ","d","i","s","c","u","s","s","i","o","n"," ",
                       "r","e","f","e","r","e","n","c","e","s"," ">>
                        \o ReferenceTypeText(correlation.reference_type)
                        \o <<":"," ">> \o correlation.github_reference,
     keywords |-> <<correlation.extracted_text>>]

\* pass 2: [threw, called, value]. No chat event: no call. A failed call is
\* caught and leaves the pass without correlations.
findSlackGithubCorrelations(slackEvents, githubEvents, answer) ==
    LET slackTexts == SliceFirst(slackEvents, SlackBatchLimit)
        got == GenerateObject(answer, RefsSchemaOk)
        found == got.object.correlations
    IN  IF Len(slackTexts) = 0 THEN [threw |-> FALSE, called |-> FALSE, value |-> <<>>]
        ELSE IF got.threw THEN [threw |-> FALSE, called |-> TRUE, value |-> <<>>]
        ELSE [threw |-> FALSE, called |-> TRUE,
              value |-> Concat([c \in DOMAIN found |->
                          LET matching == SelectSeq(githubEvents,
                                              LAMBDA g : MatchesReference(found[c], g))
                          IN  [g \in DOMAIN matching |->
                                  SlackGithubCorrelation(found[c], matching[g])]])]

\* the Map eventsByKeywords: word -> the events pushed for it, one push per
\* occurrence of the word in the event's text
EventsByKeywords(events) ==
    LET AddEvent(byKeyword, e) ==
            LET words == Words4(ToLowerCase(EventText(e)))
                AddWord(m, w) ==
                    MapSet(m, w, Append(IF MapHas(m, w) THEN MapGet(m, w) ELSE <<>>, e))
            IN  ForEach(AddWord, byKeyword, words, 1, Len(words))
    IN  ForEach(AddEvent, <<>>, events, 1, Len(events))

\* the pass-3 cap: correlations.slice(0, 10)
CrossPlatformLimit == 10

\* the least number of pushed events of a keyword
MinRelatedEvents == 3

\* the least number of platforms of a keyword
MinPlatforms == 2

\* Math.min(0.9, relatedEvents.length / 10), in tenths
CrossPlatformConfidence(n) == IF n < 9 THEN n ELSE 9

\* platforms.size >= 2 && relatedEvents.length >= 3
Qualifies(relatedEvents) ==
    /\ Cardinality({relatedEvents[i].type : i \in DOMAIN relatedEvents}) >= MinPlatforms
    /\ Len(relatedEvents) >= MinRelatedEvents

CROSS_PLATFORM_ == <<"c","r","o","s","s","_","p","l","a","t","f","o","r","m","_">>

CrossPlatformCorrelation(keyword, relatedEvents, dateNow) ==
    [id |-> CROSS_PLATFORM_ \o keyword \o <<"_">> \o NumToString(dateNow),
     events |-> [i \in DOMAIN relatedEvents |-> relatedEvents[i].id],
     type |-> "cross_platform_discussion",
     confidence |-> CrossPlatformConfidence(Len(relatedEvents)),
     description |-> <<"C","r","o","s","s","-","p","l","a","t","f","o","r","m"," ",
                       "d","i","s","c","u","s","s","i","o","n"," ","a","b","o","u","t"," ","\"">>
                        \o keyword
                        \o <<"\""," ","s","p","a","n","n","i","n","g"," ">>
                        \o JoinWith(Distinct([i \in DOMAIN relatedEvents |-> relatedEvents[i].type]),
                                    <<","," ">>),
     keywords |-> <<keyword>>]

\* pass 3 if it kept the correlations of the highest confidence
FindCrossPlatformByConfidence(events, dateNow) ==
    LET byKeyword == EventsByKeywords(events)
        all == Concat([k \in DOMAIN byKeyword |->
                   IF Qualifies(byKeyword[k][2])
                   THEN <<CrossPlatformCorrelation(byKeyword[k][1], byKeyword[k][2], dateNow)>>
                   ELSE <<>>])
    IN  SliceFirst(Concat([c \in 1..10 |->
                      SelectSeq(all, LAMBDA x : x.confidence = 10 - c)]),
                   CrossPlatformLimit)

\* pass 3
findCrossPlatformDiscussions(events, dateNow) ==
    LET byKeyword == EventsByKeywords(events)
    IN  SliceFirst(Concat([k \in DOMAIN byKeyword |->
                      IF Qualifies(byKeyword[k][2])
                      THEN <<CrossPlatformCorrelation(byKeyword[k][1], byKeyword[k][2], dateNow)>>
                      ELSE <<>>]),
                   CrossPlatformLimit)

\* findCorrelations if pass 2 did not catch the failure of its call: the catch
\* block of findCorrelations would end the passes there
FindCorrelationsUncaught(events, answer, dateNow) ==
    LET pass1 == findPRLinearCorrelations(OfType(events, GITHUB), OfType(events, LINEAR))
        pass2 == findSlackGithubCorrelations(OfType(events, SLACK), OfType(events, GITHUB), answer)
        pass3 == findCrossPlatformDiscussions(events, dateNow)
    IN  [called |-> pass2.called,
         value |-> IF pass2.called /\ GenerateObject(answer, RefsSchemaOk).threw THEN pass1
                   ELSE pass1 \o pass2.value \o pass3]

\* findCorrelations: the three passes inside one try/catch, which returns what
\* was pushed before a pass threw
findCorrelations(events, answer, dateNow) ==
    LET pass1 == findPRLinearCorrelations(OfType(events, GITHUB), OfType(events, LINEAR))
        pass2 == findSlackGithubCorrelations(OfType(events, SLACK), OfType(events, GITHUB), answer)
        pass3 == findCrossPlatformDiscussions(events, dateNow)
    IN  [called |-> pass2.called,
         value |-> IF pass2.threw THEN pass1 ELSE pass1 \o pass2.value \o pass3]

(***************************************************************************)
(* DataProcessor.generateSummaryStats                                      *)
(***************************************************************************)
CountWhere(seq, Test(_)) == Len(SelectSeq(seq, Test))

\* a Record<string, number> built by counting: key -> number of events
CountBy(events, KeyOf(_)) ==
    [k \in {KeyOf(events[i]) : i \in DOMAIN events} |->
        CountWhere(events, LAMBDA e : KeyOf(e) = k)]

IsSet(x) == x # Undefined /\ x # <<>>

generateSummaryStats(events) ==
    [total_events |-> Len(events),
     events_by_platform |-> CountBy(events, LAMBDA e : e.type),
     events_by_type |-> CountBy(SelectSeq(events, LAMBDA e : e.subtype # <<>>),
                                LAMBDA e : e.subtype),
     unique_contributors |-> Cardinality({events[i].author.id : i \in DOMAIN events}),
     repositories_active |->
         Cardinality({events[i].repository : i \in DOMAIN events} \ {Undefined, <<>>}),
     projects_active |->
         Cardinality({events[i].project : i \in DOMAIN events} \ {Undefined, <<>>})]

\* record[key] || 0
CountOf(record, key) == IF key \in DOMAIN record THEN record[key] ELSE 0

(***************************************************************************)
(* MemoryService                                                           *)
(* A Date is a number of hours since the epoch, in UTC. The host is taken  *)
(* to run in a zone without daylight-saving shifts, so that setDate moves  *)
(* a Date by whole days of 24 hours.                                       *)
(***************************************************************************)
HoursPerDay == 24

\* getDateKey: date.toISOString().split('T')[0], the UTC calendar day; the
\* day is kept as its number, which the YYYY-MM-DD text names one-to-one
getDateKey(date) == date \div HoursPerDay

\* date.setDate(date.getDate() - days)
DaysBefore(date, days) == date - days * HoursPerDay

\* `context:${dateKey}`
ContextKey(dateKey) == <<"context:", dateKey>>

\* `report:${dateKey}`
ReportKey(dateKey) == <<"report:", dateKey>>

createEmptyContext(dateKey) ==
    [date |-> dateKey,
     contributor_profiles |-> <<>>,
     project_relationships |-> <<>>,
     trending_topics |-> <<>>,
     velocity_metrics |-> [daily_pr_count |-> 0, daily_issue_count |-> 0,
                           avg_review_time_hours |-> 0, deployment_frequency |-> 0],
     action_items_history |-> <<>>]

\* .max(5) of ContributorProfileSchema.expertise_areas
MaxExpertiseAreas == 5

\* .max(3) of ContributorProfileSchema.recent_focus
MaxRecentFocus == 3

\* ContributorProfileSchema without the two .max(...) bounds
ContributorProfileSchemaNoMax(profile) == TRUE

ContributorProfileSchemaOk(profile) ==
    /\ Len(profile.expertise_areas) <= MaxExpertiseAreas
    /\ Len(profile.recent_focus) <= MaxRecentFocus

\* A stored value is [kind, ctx]:
\*   "json"    a string that parses to an object with the fields of a context
\*   "object"  such an object, handed over already parsed
\*   "garbage" a string that JSON.parse rejects
\*   "foreign" a string that parses to something of another shape
\*   "number"  a value that is neither a string nor an object
\*   "empty"   the empty string, which is falsy
\* ctx is the parsed object for "json" and "object".
Stored(kind, ctx) == [kind |-> kind, ctx |-> ctx]

\* JSON.stringify(context); JSON.parse gives the context back, since a context
\* holds strings, finite numbers, arrays and objects only
JSONStringify(context) == Stored("json", context)

\* JSON.parse(data) throws
JSONParseThrows(data) == data.kind = "garbage"

\* MemoryContextSchema.parse(parsed) succeeds
MemoryContextSchemaOk(data) ==
    /\ data.kind \in {"json", "object"}
    /\ \A id \in DOMAIN data.ctx.contributor_profiles :
           ContributorProfileSchemaOk(data.ctx.contributor_profiles[id])

\* the store without the key
Without(store, key) == [k \in DOMAIN store \ {key} |-> store[k]]

\* the store with the key set
WithKey(store, key, value) ==
    [k \in DOMAIN store \cup {key} |-> IF k = key THEN value ELSE store[k]]

\* kv.delete(key) as it comes out: [store, threw]
KvDelete(store, key, fails) ==
    [store |-> IF fails THEN store ELSE Without(store, key), threw |-> fails]

\* a call of the store as it is logged
KvCall(op, key, threw) == [op |-> op, key |-> key, threw |-> threw]

\* what getContext does with the value the read handed over, given what its
\* catch block comes to: [value, store, calls, threw]
GetContextWith(store, date, getFails, caught) ==
    LET dateKey == getDateKey(date)
        key == ContextKey(dateKey)
        get == KvCall("get", key, getFails)
        absent == [value |-> [found |-> FALSE, ctx |-> createEmptyContext(dateKey)],
                   store |-> store, calls |-> <<get>>, threw |-> FALSE]
    IN  IF getFails THEN caught
        ELSE IF key \notin DOMAIN store THEN absent
        ELSE LET data == store[key]
             IN  IF data.kind = "empty" THEN absent
                 ELSE IF data.kind = "number" THEN absent
                 ELSE IF JSONParseThrows(data) \/ ~MemoryContextSchemaOk(data) THEN caught
                 ELSE [value |-> [found |-> TRUE, ctx |-> data.ctx],
                       store |-> store, calls |-> <<get>>, threw |-> FALSE]

\* getContext whose catch block only logs and returns null
GetContextNoHeal(store, date, getFails, deleteFails) ==
    LET key == ContextKey(getDateKey(date))
    IN  GetContextWith(store, date, getFails,
            [value |-> [found |-> FALSE, ctx |-> createEmptyContext(getDateKey(date))],
             store |-> store,
             calls |-> <<KvCall("get", key, getFails)>>,
             threw |-> FALSE])

\* getContext: [value, store, calls, threw]. value.found = FALSE is null. The
\* read and the delete of the catch block fail when getFails and deleteFails
\* say so; the failure of the delete is caught and logged.
getContext(store, date, getFails, deleteFails) ==
    LET key == ContextKey(getDateKey(date))
    IN  GetContextWith(store, date, getFails,
            [value |-> [found |-> FALSE, ctx |-> createEmptyContext(getDateKey(date))],
             store |-> KvDelete(store, key, deleteFails).store,
             calls |-> <<KvCall("get", key, getFails), KvCall("delete", key, deleteFails)>>,
             threw |-> FALSE])

\* obj[key] = value on a Record<string, T>
SetField(obj, key, value) ==
    [k \in DOMAIN obj \cup {key} |-> IF k = key THEN value ELSE obj[k]]

\* the profiles of the batch alone: what the context held is dropped
OnlyNewProfiles(profiles, contribs) ==
    [id \in {contribs[i].id : i \in DOMAIN contribs} |->
        contribs[CHOOSE i \in DOMAIN contribs : contribs[i].id = id]]

\* for (const contributor of contributors) profiles[contributor.id] = contributor
MergeProfiles(profiles, contribs) ==
    ForEach(LAMBDA merged, contributor : SetField(merged, contributor.id, contributor),
            profiles, contribs, 1, Len(contribs))

\* the list under key with member pushed without the test of includes
WithMemberPushed(relationships, key, member) ==
    LET list == IF key \in DOMAIN relationships THEN relationships[key] ELSE <<>>
    IN  SetField(relationships, key, Append(list, member))

\* the list under key with member pushed unless it is included already
\* (a missing list is created empty first)
WithMember(relationships, key, member) ==
    LET list == IF key \in DOMAIN relationships THEN relationships[key] ELSE <<>>
    IN  SetField(relationships, key,
                 IF member \in Range(list) THEN list ELSE Append(list, member))

STR_REPO == <<"r","e","p","o",":">>

\* updateProjectRelationships: context.project_relationships after the loop
updateProjectRelationships(relationships, events) ==
    LET AddEvent(r, e) ==
            LET r1 == IF IsSet(e.repository) /\ IsSet(e.project)
                      THEN WithMember(r, e.project, e.repository)
                      ELSE r
            IN  IF IsSet(e.repository) /\ IsSet(e.channel)
                THEN WithMember(r1, STR_REPO \o e.repository, e.channel)
                ELSE r1
    IN  ForEach(AddEvent, relationships, events, 1, Len(events))

\* the Map keywords of extractTrendingTopics: word -> [frequency, contexts]
TopicCounts(events) ==
    LET AddEvent(keywords, e) ==
            LET words == Words4(ToLowerCase(EventText(e)))
                AddWord(m, w) ==
                    LET old == IF MapHas(m, w) THEN MapGet(m, w)
                               ELSE [frequency |-> 0, contexts |-> <<>>]
                    IN  MapSet(m, w, [frequency |-> old.frequency + 1,
                                      contexts |-> Distinct(Append(old.contexts, e.type))])
            IN  ForEach(AddWord, keywords, words, 1, Len(words))
    IN  ForEach(AddEvent, <<>>, events, 1, Len(events))

InsertByFrequencyDesc(sorted, t) ==
    InsertBefore(LAMBDA a, b : a[2].frequency > b[2].frequency, sorted, t)

\* the entries left in the order of the Map
EntriesInMapOrder(entries) == entries

\* .sort((a, b) => b[1].frequency - a[1].frequency), stable
SortByFrequencyDesc(entries) ==
    ForEach(InsertByFrequencyDesc, <<>>, Reversed(entries), 1, Len(entries))

\* more than this many mentions make a keyword a trending topic
TrendingMinFrequency == 2

\* .slice(0, 10) of the trending topics
TrendingLimit == 10

extractTrendingTopics(events) ==
    LET kept == SliceFirst(SortByFrequencyDesc(
                    SelectSeq(TopicCounts(events),
                              LAMBDA t : t[2].frequency > TrendingMinFrequency)),
                    TrendingLimit)
    IN  [i \in DOMAIN kept |-> [keyword |-> kept[i][1],
                                frequency |-> kept[i][2].frequency,
                                contexts |-> kept[i][2].contexts]]

\* the placeholder of calculateAvgReviewTime
AssumedReviewHours == 24

calculateAvgReviewTime(events) ==
    IF \E i \in DOMAIN events : events[i].type = GITHUB /\ IsPrEvent(events[i])
    THEN AssumedReviewHours ELSE 0

DEPLOYMENT == <<"d","e","p","l","o","y","m","e","n","t">>

\* .slice(-7) of action_items_history
HistoryLimit == 7

\* the entry updateDailyContext pushes onto action_items_history
HistoryEntry(dateKey, items) ==
    [date |-> dateKey,
     resolved_count |-> CountWhere(items, LAMBDA a : a.type = "review_needed"),
     new_count |-> Len(items),
     overdue_count |-> CountWhere(items, LAMBDA a : a.type = "overdue")]

\* action_items_history after the push, without the trim
PushedHistory(history, entry) == Append(history, entry)

\* action_items_history after the push and .slice(-7)
TrimmedHistory(history, entry) == SliceLast(Append(history, entry), HistoryLimit)

\* the context written back when a profile the context holds is not replaced
UpdatedContextFirstWins(context, dateKey, data) ==
    LET merged == MergeProfiles(context.contributor_profiles, data.contributors)
    IN  [date |-> context.date,
         contributor_profiles |->
             [id \in DOMAIN merged |-> IF id \in DOMAIN context.contributor_profiles
                                       THEN context.contributor_profiles[id] ELSE merged[id]],
         project_relationships |-> updateProjectRelationships(context.project_relationships, data.events),
         trending_topics |-> extractTrendingTopics(data.events),
         velocity_metrics |->
             [daily_pr_count |-> CountOf(data.summary_stats.events_by_type, PR_OPENED),
              daily_issue_count |-> CountOf(data.summary_stats.events_by_type, ISSUE_OPENED),
              avg_review_time_hours |-> calculateAvgReviewTime(data.events),
              deployment_frequency |-> CountOf(data.summary_stats.events_by_type, DEPLOYMENT)],
         action_items_history |->
             TrimmedHistory(context.action_items_history, HistoryEntry(dateKey, data.action_items))]

\* the context updateDailyContext writes back
UpdatedContext(context, dateKey, data) ==
    [date |-> context.date,
     contributor_profiles |-> MergeProfiles(context.contributor_profiles, data.contributors),
     project_relationships |-> updateProjectRelationships(context.project_relationships, data.events),
     trending_topics |-> extractTrendingTopics(data.events),
     velocity_metrics |->
         [daily_pr_count |-> CountOf(data.summary_stats.events_by_type, PR_OPENED),
          daily_issue_count |-> CountOf(data.summary_stats.events_by_type, ISSUE_OPENED),
          avg_review_time_hours |-> calculateAvgReviewTime(data.events),
          deployment_frequency |-> CountOf(data.summary_stats.events_by_type, DEPLOYMENT)],
     action_items_history |->
         TrimmedHistory(context.action_items_history, HistoryEntry(dateKey, data.action_items))]

\* updateDailyContext(processedData, report) with report.date = reportDate:
\* [store, threw, calls]. faults says which calls of the store fail; a failing
\* kv.set is not caught.
updateDailyContext(store, data, reportDate, faults) ==
    LET dateKey == getDateKey(reportDate)
        read == getContext(store, reportDate, faults.get, faults.delete)
        context == IF read.value.found THEN read.value.ctx ELSE createEmptyContext(dateKey)
        written == JSONStringify(UpdatedContext(context, dateKey, data))
    IN  [store |-> IF faults.set THEN read.store
                   ELSE WithKey(read.store, ContextKey(dateKey), written),
         threw |-> faults.set,
         calls |-> Append(read.calls, KvCall("set", ContextKey(dateKey), faults.set))]

\* the days getContributorProfile scans
RecallDays == 7

\* getRecentDates that starts with yesterday
RecentDatesFromYesterday(now, days) == [i \in 1..days |-> DaysBefore(now, i)]

\* getRecentDates(days) for the clock at now: today, yesterday, ...
getRecentDates(now, days) == [i \in 1..days |-> DaysBefore(now, i - 1)]

\* the loop of getContributorProfile over the dates to scan: the dates after
\* the one that holds the profile are not read
ScanProfiles(store, dates, contributorId, faults) ==
    LET ScanDate(scan, date) ==
            IF scan.value.found THEN scan
            ELSE LET read == getContext(scan.store, date, faults.get, faults.delete)
                 IN  [value |-> IF /\ read.value.found
                                   /\ contributorId \in DOMAIN read.value.ctx.contributor_profiles
                                THEN [found |-> TRUE,
                                      profile |->
                                          read.value.ctx.contributor_profiles[contributorId]]
                                ELSE [found |-> FALSE],
                      store |-> read.store,
                      calls |-> scan.calls \o read.calls]
    IN  ForEach(ScanDate, [value |-> [found |-> FALSE], store |-> store, calls |-> <<>>],
                dates, 1, Len(dates))

\* getContributorProfile(contributorId) with the clock at now: [value, store, calls]
getContributorProfile(store, now, contributorId, faults) ==
    ScanProfiles(store, getRecentDates(now, RecallDays), contributorId, faults)

(***************************************************************************)
(* DataProcessor.buildContributorProfiles                                  *)
(***************************************************************************)
\* Date.prototype.getHours
getHours(date) == date % HoursPerDay

\* the profile of a contributor seen for the first time
NewProfile(event) ==
    [id |-> event.author.id, name |-> event.author.name, platforms |-> <<>>,
     activity_patterns |-> [most_active_hours |-> <<>>, preferred_platforms |-> <<>>,
                            avg_daily_events |-> 0],
     expertise_areas |-> <<>>, recent_focus |-> <<>>]

\* a store whose calls all succeed
NoFaults == [get |-> FALSE, delete |-> FALSE, set |-> FALSE]

\* the Map existingProfiles after the loop over the events, and the store
\* after its reads: [profiles, store]. A later event of an author sets the
\* entry again, so the entry of an author holds what the last read returned.
ExistingProfiles(events, store, now, faults) ==
    LET ReadProfile(existing, event) ==
            LET authorId == event.author.id
                existingProfile == getContributorProfile(existing.store, now, authorId, faults)
            IN  [profiles |-> IF existingProfile.value.found
                              THEN MapSet(existing.profiles, authorId,
                                          existingProfile.value.profile)
                              ELSE existing.profiles,
                 store |-> existingProfile.store]
    IN  ForEach(ReadProfile, [profiles |-> <<>>, store |-> store], events, 1, Len(events))

\* the Map contributorMap after the loop over the events
ContributorMap(events, existingProfiles) ==
    LET AddEvent(contributorMap, event) ==
            LET authorId == event.author.id
                profile == IF MapHas(contributorMap, authorId)
                           THEN MapGet(contributorMap, authorId)
                           ELSE IF MapHas(existingProfiles, authorId)
                                THEN MapGet(existingProfiles, authorId)
                           ELSE NewProfile(event)
                hour == getHours(event.timestamp)
                hours == profile.activity_patterns.most_active_hours
            IN  MapSet(contributorMap, authorId,
                       [profile EXCEPT
                           !.platforms = SetField(@, event.type, authorId),
                           !.activity_patterns.most_active_hours =
                               IF hour \in Range(hours) THEN hours ELSE Append(hours, hour)])
    IN  ForEach(AddEvent, <<>>, events, 1, Len(events))

\* .max(5) of expertise_areas in the schema of the analysis
AnalysisMaxExpertise == 5

\* .max(3) of recent_focus in the schema of the analysis
AnalysisMaxFocus == 3

\* the schema handed to generateObject for the analysis
AnalysisSchemaOk(object) ==
    /\ Len(object.expertise_areas) <= AnalysisMaxExpertise
    /\ Len(object.recent_focus) <= AnalysisMaxFocus

\* the Map platformCounts of the fallback
PlatformCounts(authorEvents) ==
    ForEach(LAMBDA counts, event :
                MapSet(counts, event.type,
                       (IF MapHas(counts, event.type) THEN MapGet(counts, event.type) ELSE 0) + 1),
            <<>>, authorEvents, 1, Len(authorEvents))

InsertByCountDesc(sorted, t) ==
    InsertBefore(LAMBDA a, b : a[2] > b[2], sorted, t)

\* the platform counts left in the order of the Map
CountsInMapOrder(entries) == entries

\* .sort((a, b) => b[1] - a[1]), stable
SortByCountDesc(entries) ==
    ForEach(InsertByCountDesc, <<>>, Reversed(entries), 1, Len(entries))

\* .slice(0, 3) of the platforms of the fallback
PreferredPlatformsLimit == 3

\* one round of the analysis loop: the profile of authorId after the
\* collaborator answered, or after the fallback when the call threw
AnalysedProfile(authorId, profile, events, answer) ==
    LET authorEvents == SelectSeq(events, LAMBDA e : e.author.id = authorId)
        analysis == GenerateObject(answer, AnalysisSchemaOk)
    IN  IF ~analysis.threw
        THEN [profile EXCEPT
                 !.activity_patterns.preferred_platforms = analysis.object.preferred_platforms,
                 !.activity_patterns.avg_daily_events = analysis.object.avg_daily_events,
                 !.expertise_areas = analysis.object.expertise_areas,
                 !.recent_focus = analysis.object.recent_focus]
        ELSE [profile EXCEPT
                 !.activity_patterns.preferred_platforms =
                     MapKeys(SliceFirst(SortByCountDesc(PlatformCounts(authorEvents)),
                                        PreferredPlatformsLimit)),
                 !.activity_patterns.avg_daily_events = Len(authorEvents)]

\* buildContributorProfiles whose analysis loop has no try/catch
BuildContributorProfilesUncaught(events, store, now, answers, faults) ==
    LET existing == ExistingProfiles(events, store, now, faults)
        contributorMap == ContributorMap(events, existing.profiles)
    IN  [store |-> existing.store,
         value |-> [i \in DOMAIN contributorMap |->
                       AnalysedProfile(contributorMap[i][1], contributorMap[i][2],
                                       events, answers[i])],
         threw |-> \E i \in DOMAIN contributorMap :
                       GenerateObject(answers[i], AnalysisSchemaOk).threw]

\* buildContributorProfiles: [value, store, threw]. answers[i] is what the
\* collaborator does on the i-th call.
buildContributorProfiles(events, store, now, answers, faults) ==
    LET existing == ExistingProfiles(events, store, now, faults)
        contributorMap == ContributorMap(events, existing.profiles)
    IN  [store |-> existing.store,
         value |-> [i \in DOMAIN contributorMap |->
                       AnalysedProfile(contributorMap[i][1], contributorMap[i][2],
                                       events, answers[i])],
         threw |-> FALSE]

(***************************************************************************)
(* DataProcessor.identifyActionItems                                       *)
(***************************************************************************)
\* .slice(0, 30) of the events shown to the collaborator
ActionSampleLimit == 30

\* .slice(0, 20) of the action items returned
ActionItemLimit == 20

\* a field the collaborator answered as null
Null == <<"null">>

\* x ?? undefined
OrUndefined(x) == IF x = Null THEN Undefined ELSE x

\* ActionItemSchema.type
ActionItemTypes == {"review_needed", "blocked", "overdue", "requires_attention"}

\* the schema handed to generateObject for the action items
ActionItemsSchemaOk(object) ==
    \A i \in DOMAIN object.action_items :
        /\ object.action_items[i].type \in ActionItemTypes
        /\ object.action_items[i].priority \in Priorities

ACTION_ == <<"a","c","t","i","o","n","_">>

REVIEW_NEEDED_ == <<"R","e","v","i","e","w"," ","n","e","e","d","e","d",":"," ">>

PR_REQUIRES_ == <<"P","R"," ","r","e","q","u","i","r","e","s"," ","r","e","v","i","e","w"," ",
                  "f","r","o","m",":"," ">>

\* events.filter(e => ['high', 'urgent'].includes(e.priority)).slice(0, 30)
EventSample(events) ==
    SliceFirst(SelectSeq(events, LAMBDA e : e.priority \in {PRIORITY_HIGH, PRIORITY_URGENT}),
               ActionSampleLimit)

\* events.find(e => e.id === id), where there is one
FindEvent(events, id) == events[CHOOSE i \in DOMAIN events :
                                    /\ events[i].id = id
                                    /\ \A j \in 1..(i - 1) : events[j].id # id]

\* an action item built from the item of the collaborator alone
ConvertedItemWithoutEvent(item, originalEvent) ==
    [id |-> ACTION_ \o item.event_id, type |-> item.type, title |-> item.title,
     description |-> OrUndefined(item.description), url |-> Undefined,
     assignee |-> OrUndefined(item.assignee), priority |-> item.priority,
     created_at |-> 0, platform |-> GITHUB,
     repository |-> Undefined, project |-> Undefined]

\* the action item built from an item of the collaborator and its event
ConvertedItem(item, originalEvent) ==
    [id |-> ACTION_ \o item.event_id, type |-> item.type, title |-> item.title,
     description |-> OrUndefined(item.description), url |-> originalEvent.url,
     assignee |-> OrUndefined(item.assignee), priority |-> item.priority,
     created_at |-> originalEvent.timestamp, platform |-> originalEvent.type,
     repository |-> originalEvent.repository, project |-> originalEvent.project]

\* the action item the fallback builds from an event
FallbackItem(event) ==
    [id |-> ACTION_ \o event.id, type |-> "review_needed",
     title |-> REVIEW_NEEDED_ \o event.title,
     description |-> PR_REQUIRES_ \o JoinWith(event.assignees, <<",", " ">>),
     url |-> event.url, assignee |-> Undefined, priority |-> PRIORITY_HIGH,
     created_at |-> event.timestamp, platform |-> event.type,
     repository |-> event.repository, project |-> Undefined]

\* actionItems after the loop over the items of the collaborator
ConvertedItems(events, items) ==
    LET known == SelectSeq(items, LAMBDA item : \E i \in DOMAIN events : events[i].id = item.event_id)
    IN  [i \in DOMAIN known |-> ConvertedItem(known[i], FindEvent(events, known[i].event_id))]

\* the fallback without the test of the priority
FallbackItemsOfAnyPriority(events) ==
    LET review == SelectSeq(events, LAMBDA e : e.subtype = PR_REVIEW_REQUESTED)
    IN  [i \in DOMAIN review |-> FallbackItem(review[i])]

\* actionItems after the loop of the fallback
FallbackItems(events) ==
    LET review == SelectSeq(events, LAMBDA e : /\ e.subtype = PR_REVIEW_REQUESTED
                                                /\ e.priority = PRIORITY_HIGH)
    IN  [i \in DOMAIN review |-> FallbackItem(review[i])]

\* identifyActionItems that returns all the items it built
IdentifyActionItemsUncapped(events, answer) ==
    LET result == GenerateObject(answer, ActionItemsSchemaOk)
    IN  IF Len(EventSample(events)) = 0
        THEN [value |-> <<>>, called |-> FALSE, threw |-> FALSE]
        ELSE [value |-> IF result.threw THEN FallbackItems(events)
                        ELSE ConvertedItems(events, result.object.action_items),
              called |-> TRUE, threw |-> FALSE]

\* identifyActionItems: [value, called, threw]; called says whether the
\* collaborator was asked. The correlations it is handed are not read.
identifyActionItems(events, answer) ==
    LET result == GenerateObject(answer, ActionItemsSchemaOk)
    IN  IF Len(EventSample(events)) = 0
        THEN [value |-> <<>>, called |-> FALSE, threw |-> FALSE]
        ELSE [value |-> SliceFirst(IF result.threw THEN FallbackItems(events)
                                   ELSE ConvertedItems(events, result.object.action_items),
                                   ActionItemLimit),
              called |-> TRUE, threw |-> FALSE]

(***************************************************************************)
(* DataProcessor.processAndCorrelate: the value handed to the final parse  *)
(***************************************************************************)
CorrelationTypes == {"pr_to_linear", "slack_to_github", "cross_platform_discussion"}

\* ProcessedDataSchema.parse(processedData) succeeds
ProcessedDataSchemaOk(data) ==
    /\ \A i \in DOMAIN data.events :
           /\ data.events[i].type \in Platforms
           /\ data.events[i].priority \in Priorities
    /\ \A i \in DOMAIN data.correlations :
           /\ data.correlations[i].type \in CorrelationTypes
           /\ data.correlations[i].confidence >= 0
           /\ data.correlations[i].confidence <= 10
    /\ \A i \in DOMAIN data.contributors : ContributorProfileSchemaOk(data.contributors[i])
    /\ \A i \in DOMAIN data.action_items :
           /\ data.action_items[i].type \in ActionItemTypes
           /\ data.action_items[i].priority \in Priorities
           /\ data.action_items[i].platform \in Platforms

(***************************************************************************)
(* State                                                                   *)
(***************************************************************************)
VARIABLES
    rawData,            \* processAndCorrelate's argument: the events per source
    pc,                 \* where processAndCorrelate stands
    normalizedEvents,   \* Step 1
    correlations,       \* Step 2
    contributors,       \* Step 3
    actionItems,        \* Step 4
    processedData,      \* what processAndCorrelate returned
    llm,                \* what the Text-Intelligence collaborator answered, per call site
    kv,                 \* the key-value store behind MemoryService
    now,                \* the clock: new Date()
    mem,                \* the last call of MemoryService made from outside, and its outcome
    appended,           \* the history entries updateDailyContext pushed, per date key
    agent,              \* where the run of the Agent stands, its report and its response
    calls               \* the calls of updateDailyContext under way, per caller

vars == <<rawData, pc, normalizedEvents, correlations, contributors, actionItems,
          processedData, llm, kv, now, mem, appended, agent, calls>>

\* the variables of processAndCorrelate
processVars == <<rawData, pc, normalizedEvents, correlations, contributors, actionItems,
                 processedData, llm>>

\* Date.now() of the run, in milliseconds
DateNow == 86400000

\* all sequences over S of length at most n
SeqsUpTo(S, n) == UNION {[1..k -> S] : k \in 0..n}

\* the events of a batch as the collectors hand them over, one array per source
BySource(events) ==
    [github |-> OfType(events, GITHUB), slack |-> OfType(events, SLACK),
     linear |-> OfType(events, LINEAR), discord |-> OfType(events, DISCORD)]

\* allEvents of processAndCorrelate
AllEvents(raw) == raw.github \o raw.slack \o raw.linear \o raw.discord

\* the sources processAndCorrelate spreads into allEvents
SpreadSources == {"github", "slack", "linear", "discord"}

\* [...rawData.x] throws a TypeError when rawData has no x: undefined is not
\* iterable
SpreadThrows(raw) == ~(SpreadSources \subseteq DOMAIN raw)

NoAnswers == [refs |-> "none", traits |-> <<>>, items |-> "none"]

NotReturned == [returned |-> FALSE, threw |-> FALSE]

\* processAndCorrelate ended in an exception
Thrown == [returned |-> FALSE, threw |-> TRUE]

NoCall == [op |-> "none"]

\* no report yet
NoReport == [date |-> 0, fallback |-> FALSE]

\* the Agent is not running
NoRun == [pc |-> "idle", settled |-> <<>>, report |-> NoReport,
          previous |-> [found |-> FALSE, report |-> NoReport], posted |-> "none",
          response |-> "none"]

\* the clock at the start: late enough for the days getRecentDates reaches
\* back to be days of the model
FirstNow == RecallDays * HoursPerDay

\* processAndCorrelate is about to run on the events, over the store
StartOver(events, store) ==
    /\ rawData = BySource(events)
    /\ pc = "start"
    /\ normalizedEvents = <<>>
    /\ correlations = <<>>
    /\ contributors = <<>>
    /\ actionItems = <<>>
    /\ processedData = NotReturned
    /\ llm = NoAnswers
    /\ kv = store
    /\ now = FirstNow
    /\ mem = NoCall
    /\ appended = <<>>
    /\ agent = NoRun
    /\ calls = <<>>

StartOf(events) == StartOver(events, <<>>)

\* MemoryService on its own: no run of processAndCorrelate under way
MemoryOnly ==
    /\ rawData = BySource(<<>>)
    /\ pc = "idle"
    /\ normalizedEvents = <<>>
    /\ correlations = <<>>
    /\ contributors = <<>>
    /\ actionItems = <<>>
    /\ processedData = NotReturned
    /\ llm = NoAnswers
    /\ kv = <<>>
    /\ now = FirstNow
    /\ mem = NoCall
    /\ appended = <<>>
    /\ agent = NoRun
    /\ calls = <<>>

\* Step 1 of processAndCorrelate
NormalizeStep ==
    /\ pc = "start"
    /\ IF SpreadThrows(rawData)
       THEN /\ pc' = "done"
            /\ processedData' = Thrown
            /\ UNCHANGED normalizedEvents
       ELSE /\ normalizedEvents' = normalizeEvents(AllEvents(rawData))
            /\ pc' = "normalized"
            /\ UNCHANGED processedData
    /\ UNCHANGED <<rawData, correlations, contributors, actionItems, llm,
                   kv, now, mem, appended, agent, calls>>

(***************************************************************************)
(* Normalisation on its own: batches with repeated dedup keys              *)
(***************************************************************************)
MaxRaw == 3

DEV_ACME == <<"d","e","v","_","a","c","m","e">>

ACME == <<"a","c","m","e">>

SYSTEM == <<"s","y","s","t","e","m">>

\* two pull requests of one author at one time, the same by another author and
\* at another time, two reactions to one message, which the collector gives the
\* author 'system' and the message's time, and a tracker issue
NormalizePool ==
    { BaseEvent(<<"g","1">>, GITHUB, PR_OPENED, DEV_ACME, 2, <<"o","n","e">>),
      BaseEvent(<<"g","2">>, GITHUB, PR_OPENED, DEV_ACME, 2, <<"t","w","o">>),
      BaseEvent(<<"g","3">>, GITHUB, PR_OPENED, ACME, 2, <<"o","n","e">>),
      BaseEvent(<<"g","4">>, GITHUB, PR_REVIEWED, DEV_ACME, 12, <<"o","n","e">>),
      [BaseEvent(<<"s","1">>, SLACK, REACTION_ADDED, SYSTEM, 3, <<"u","p">>)
          EXCEPT !.labels = UndefinedList],
      BaseEvent(<<"s","2">>, SLACK, REACTION_ADDED, SYSTEM, 3, <<"e","y","e","s">>),
      BaseEvent(<<"l","1">>, LINEAR, ISSUE_CREATED, DEV_ACME, 2, <<"o","n","e">>) }

InitNormalize == \E events \in SeqsUpTo(NormalizePool, MaxRaw) : StartOf(events)

NextNormalize == NormalizeStep

SpecNormalize == InitNormalize /\ [][NextNormalize]_vars

\* the dedup key of the specification: (platform, subtype, author.id, timestamp)
DedupKey(e) == <<e.type, e.subtype, e.author.id, e.timestamp>>

\* the first event of the batch with the dedup key of its i-th event
FirstWithKey(events, i) ==
    events[CHOOSE j \in 1..i :
              /\ DedupKey(events[j]) = DedupKey(events[i])
              /\ \A k \in 1..(j - 1) : DedupKey(events[k]) # DedupKey(events[i])]

\* C1: normalisation keeps exactly one event per distinct dedup key
\* (platform, subtype, author.id, timestamp), the first one of the input with
\* that key; every later event with the key is dropped.
C1_FirstPerDedupKey ==
    pc = "normalized" =>
        LET all == AllEvents(rawData)
            kept == Range(normalizedEvents)
        IN  /\ \A i \in DOMAIN all : WithDefaults(FirstWithKey(all, i)) \in kept
            /\ \A e \in kept : \E i \in DOMAIN all : e = WithDefaults(FirstWithKey(all, i))
            /\ \A a, b \in DOMAIN normalizedEvents :
                   a # b => DedupKey(normalizedEvents[a]) # DedupKey(normalizedEvents[b])
            /\ Len(normalizedEvents) = Cardinality({DedupKey(all[i]) : i \in DOMAIN all})

\* a batch with a repeated key was normalised: the later event is gone
C1_Witness ==
    /\ pc = "normalized"
    /\ Len(AllEvents(rawData)) = 3
    /\ Len(normalizedEvents) = 2
    /\ \E i, j \in DOMAIN AllEvents(rawData) :
           /\ i < j
           /\ DedupKey(AllEvents(rawData)[i]) = DedupKey(AllEvents(rawData)[j])
           /\ AllEvents(rawData)[i].id # AllEvents(rawData)[j].id
           /\ \E a \in DOMAIN normalizedEvents : normalizedEvents[a].id = AllEvents(rawData)[i].id
           /\ \A a \in DOMAIN normalizedEvents : normalizedEvents[a].id # AllEvents(rawData)[j].id

\* Step 2 of processAndCorrelate
FindCorrelationsStep(answers) ==
    /\ pc = "normalized"
    /\ \E answer \in answers :
           LET found == findCorrelations(normalizedEvents, answer, DateNow)
           IN  /\ correlations' = found.value
               /\ llm' = [llm EXCEPT !.refs =
                             IF ~found.called THEN "none"
                             ELSE IF GenerateObject(answer, RefsSchemaOk).threw THEN "failed"
                             ELSE "answered"]
    /\ pc' = "correlated"
    /\ UNCHANGED <<rawData, normalizedEvents, contributors, actionItems, processedData,
                   kv, now, mem, appended, agent, calls>>

(***************************************************************************)
(* Correlation on its own                                                  *)
(***************************************************************************)
MaxBatch == 3

WEB == <<"a","c","m","e","/","w","e","b">>

LIN_42 == <<"L","I","N","-","4","2">>

TRK_42 == <<"T","R","K","-","4","2">>

DEPLOY == <<"d","e","p","l","o","y">>

\* a pull request that names the tracker issue LIN-42, one that names TRK-42,
\* the two tracker issues, and chat messages that repeat a word (2, 9 and 5 times)
CorrelatePool ==
    { [BaseEvent(<<"g","1">>, GITHUB, PR_OPENED, DEV_ACME, 5, <<"D","e","p","l","o","y"," ","f","i","x">>)
          EXCEPT !.description = <<"f","i","x","e","s"," ","L","I","N","-","4","2">>, !.repository = WEB,
                 !.metadata = [NoMetadata EXCEPT !.pr_number = 7]],
      [BaseEvent(<<"g","2">>, GITHUB, PR_MERGED, ACME, 4, <<"C","a","c","h","e">>)
          EXCEPT !.description = <<"f","i","x","e","s"," ","T","R","K","-","4","2">>, !.repository = WEB,
                 !.metadata = [NoMetadata EXCEPT !.pr_number = 8]],
      [BaseEvent(<<"l","1">>, LINEAR, ISSUE_CREATED, ACME, 3, <<"L","I","N","-","4","2",":"," ","d","e","p","l","o","y">>)
          EXCEPT !.metadata = [NoMetadata EXCEPT !.identifier = LIN_42, !.issue_id = <<"i","1">>]],
      [BaseEvent(<<"l","2">>, LINEAR, ISSUE_CREATED, ACME, 2, <<"T","R","K","-","4","2",":"," ","c","a","c","h","e">>)
          EXCEPT !.metadata = [NoMetadata EXCEPT !.identifier = TRK_42, !.issue_id = <<"i","2">>]],
      BaseEvent(<<"s","1">>, SLACK, MESSAGE_SENT, DEV_ACME, 6, <<"d","e","p","l","o","y"," ","P","R"," ","7"," ","t","h","e","n"," ","d","e","p","l","o","y">>),
      BaseEvent(<<"s","2">>, SLACK, MESSAGE_SENT, ACME, 7,
                <<"d","e","p","l","o","y"," ","d","e","p","l","o","y"," ","d","e","p","l","o","y"," ","d","e","p","l","o","y"," ","d","e","p","l","o","y"," ","d","e","p","l","o","y"," ","d","e","p","l","o","y"," ","d","e","p","l","o","y"," ","d","e","p","l","o","y">>),
      BaseEvent(<<"d","1">>, DISCORD, MESSAGE_SENT, ACME, 8,
                <<"D","e","p","l","o","y"," ","d","e","p","l","o","y"," ","d","e","p","l","o","y"," ","d","e","p","l","o","y"," ","d","e","p","l","o","y">>) }

\* one reference as the collaborator returns it
Reference(slackEventId, reference, referenceType, confidence) ==
    [slack_event_id |-> slackEventId, github_reference |-> reference,
     reference_type |-> referenceType, confidence |-> confidence,
     extracted_text |-> reference]

\* what the reference-extraction call can come back with: a failure, no
\* reference, references with confidence 0, 0.5 and 1, objects the schema
\* rejects (confidence below 0 or above 1), a commit, and a reference that
\* names no event of the batch
RefAnswers ==
    { [ok |-> FALSE, object |-> [correlations |-> <<>>]],
      [ok |-> TRUE, object |-> [correlations |-> <<>>]],
      [ok |-> TRUE, object |-> [correlations |->
          <<Reference(<<"s","1">>, <<"P","R"," ","7">>, "pr", 5)>>]],
      [ok |-> TRUE, object |-> [correlations |->
          <<Reference(<<"s","1">>, <<"P","R"," ","7">>, "pr", 0),
            Reference(<<"s","2">>, <<"A","c","m","e","/","W","e","b">>, "repository", 10)>>]],
      [ok |-> TRUE, object |-> [correlations |->
          <<Reference(<<"s","1">>, <<"P","R"," ","7">>, "pr", 11)>>]],
      [ok |-> TRUE, object |-> [correlations |->
          <<Reference(<<"s","1">>, <<"P","R"," ","7">>, "pr", 0 - 1)>>]],
      [ok |-> TRUE, object |-> [correlations |->
          <<Reference(<<"s","1">>, <<"a","b","c","1","2","3","4">>, "commit", 9),
            Reference(<<"s","9">>, <<"#","8">>, "pr", 3)>>]] }

InitCorrelate == \E events \in SeqsUpTo(CorrelatePool, MaxBatch) : StartOf(events)

NextCorrelate == NormalizeStep \/ FindCorrelationsStep(RefAnswers)

SpecCorrelate == InitCorrelate /\ [][NextCorrelate]_vars

\* the events of the batch whose title+description contains the keyword
EventsWithKeyword(events, keyword) ==
    {e \in Range(events) : keyword \in Range(Words4(ToLowerCase(EventText(e))))}

OfKind(corrs, type) == SelectSeq(corrs, LAMBDA c : c.type = type)

\* the place of a correlation's pass in the result
PassOf(correlation) ==
    IF correlation.type = "pr_to_linear" THEN 1
    ELSE IF correlation.type = "slack_to_github" THEN 2
    ELSE 3

\* an answer of the reference-extraction call that names no reference
NoReferences == [ok |-> TRUE, object |-> [correlations |-> <<>>]]

\* C18: when the collaborator call of pass 2 fails, the result holds no
\* chat-to-code correlation and every pass-1 and pass-3 correlation it holds
\* otherwise; in every outcome the pass-1 correlations come first, then those
\* of pass 2, then those of pass 3.
C18_Pass2FailureKeepsOtherPasses ==
    pc = "correlated" =>
        /\ llm.refs = "failed" =>
               /\ OfKind(correlations, "slack_to_github") = <<>>
               /\ correlations = findCorrelations(normalizedEvents, NoReferences, DateNow).value
        /\ \A i, j \in DOMAIN correlations :
               i < j => PassOf(correlations[i]) <= PassOf(correlations[j])

\* the call failed, and the result holds a pass-1 and a pass-3 correlation
C18_Witness ==
    /\ pc = "correlated"
    /\ llm.refs = "failed"
    /\ OfKind(correlations, "pr_to_linear") # <<>>
    /\ OfKind(correlations, "cross_platform_discussion") # <<>>

\* the call answered, and the result holds correlations of all three passes
C18_AllPassesWitness ==
    /\ pc = "correlated"
    /\ llm.refs = "answered"
    /\ \A pass \in 1..3 : \E i \in DOMAIN correlations : PassOf(correlations[i]) = pass

\* C6: every correlation returned has a confidence in [0, 1]; a pass-1
\* correlation has 0.8 and a pass-3 correlation min(0.9, n/10) for the n
\* events it lists (confidences are in tenths).
C6_ConfidenceInUnitInterval ==
    pc = "correlated" =>
        \A i \in DOMAIN correlations :
            LET c == correlations[i]
            IN  /\ c.confidence >= 0 /\ c.confidence <= 10
                /\ c.type = "pr_to_linear" => c.confidence = 8
                /\ c.type = "cross_platform_discussion" =>
                       /\ Len(c.events) <= 9 => c.confidence = Len(c.events)
                       /\ Len(c.events) > 9 => c.confidence = 9

\* all three passes gave a correlation: pass 2 one of confidence 1, pass 3 one
\* of more than 9 events
C6_Witness ==
    /\ pc = "correlated"
    /\ llm.refs = "answered"
    /\ \E i \in DOMAIN correlations : correlations[i].type = "pr_to_linear"
    /\ \E i \in DOMAIN correlations :
           correlations[i].type = "slack_to_github" /\ correlations[i].confidence = 10
    /\ \E i \in DOMAIN correlations :
           /\ correlations[i].type = "cross_platform_discussion"
           /\ Len(correlations[i].events) > 9
           /\ correlations[i].confidence = 9

\* C7: a cross-platform-topic correlation is emitted for a keyword only when
\* the distinct events containing the keyword are at least 3 and span at least
\* 2 platforms; an event that contains the keyword several times counts once.
C7_ThreeDistinctEvents ==
    pc = "correlated" =>
        \A i \in DOMAIN correlations :
            correlations[i].type = "cross_platform_discussion" =>
                LET with == EventsWithKeyword(normalizedEvents, correlations[i].keywords[1])
                IN  /\ Cardinality({e.id : e \in with}) >= 3
                    /\ Cardinality({e.type : e \in with}) >= 2

\* does the text name the identifier as a word of its own
MentionsIdentifier(text, identifier) ==
    \E i \in 1..Len(text) :
        /\ MatchesAt(text, identifier, i)
        /\ i = 1 \/ text[i - 1] = " "
        /\ i + Len(identifier) > Len(text) \/ text[i + Len(identifier)] = " "

\* C8: a PR event whose description refers to tracker identifier X and the one
\* tracker event with identifier X yield exactly one code-to-tracker
\* correlation, of confidence 0.8, listing the two event ids.
C8_OneCorrelationPerReference ==
    pc = "correlated" =>
        \A p, l \in Range(normalizedEvents) :
            ( /\ p.type = GITHUB /\ IsPrEvent(p)
              /\ l.type = LINEAR /\ l.metadata.identifier # Undefined
              /\ p.description # Undefined
              /\ MentionsIdentifier(p.description, l.metadata.identifier) )
            => /\ Cardinality({i \in DOMAIN correlations :
                                  /\ correlations[i].type = "pr_to_linear"
                                  /\ correlations[i].events = <<p.id, l.id>>}) = 1
               /\ \A i \in DOMAIN correlations :
                      ( /\ correlations[i].type = "pr_to_linear"
                        /\ correlations[i].events = <<p.id, l.id>> )
                      => correlations[i].confidence = 8


(***************************************************************************)
(* Steps 3 to 5 of processAndCorrelate, and its return                     *)
(***************************************************************************)
\* the contributors of the events: the keys of contributorMap
AuthorsOf(events) == Distinct([i \in DOMAIN events |-> events[i].author.id])

\* Step 3 of processAndCorrelate; the collaborator is asked once per contributor
BuildContributorProfilesStep(answerPool) ==
    /\ pc = "correlated"
    /\ \E answers \in [1..Len(AuthorsOf(normalizedEvents)) -> answerPool] :
           LET built == buildContributorProfiles(normalizedEvents, kv, now, answers, NoFaults)
           IN  /\ contributors' = built.value
               /\ kv' = built.store
               /\ llm' = [llm EXCEPT !.traits =
                             [i \in DOMAIN answers |->
                                 IF GenerateObject(answers[i], AnalysisSchemaOk).threw
                                 THEN "failed" ELSE "answered"]]
               /\ pc' = IF built.threw THEN "done" ELSE "profiled"
               /\ processedData' = IF built.threw THEN Thrown ELSE processedData
    /\ UNCHANGED <<rawData, normalizedEvents, correlations, actionItems, now, mem, appended, agent, calls>>

\* Step 4 of processAndCorrelate
IdentifyActionItemsStep(answerPool) ==
    /\ pc = "profiled"
    /\ \E answer \in answerPool :
           LET identified == identifyActionItems(normalizedEvents, answer)
           IN  /\ actionItems' = identified.value
               /\ llm' = [llm EXCEPT !.items =
                             IF ~identified.called THEN "none"
                             ELSE IF GenerateObject(answer, ActionItemsSchemaOk).threw
                                  THEN "failed"
                             ELSE "answered"]
               /\ pc' = IF identified.threw THEN "done" ELSE "identified"
               /\ processedData' = IF identified.threw THEN Thrown ELSE processedData
    /\ UNCHANGED <<rawData, normalizedEvents, correlations, contributors,
                   kv, now, mem, appended, agent, calls>>

\* Step 5 of processAndCorrelate and the final parse
ReturnStep ==
    /\ pc = "identified"
    /\ LET data == [events |-> normalizedEvents,
                    correlations |-> correlations,
                    contributors |-> contributors,
                    action_items |-> actionItems,
                    summary_stats |-> generateSummaryStats(normalizedEvents)]
       IN  processedData' = IF ProcessedDataSchemaOk(data)
                            THEN [returned |-> TRUE, threw |-> FALSE, value |-> data]
                            ELSE Thrown
    /\ pc' = "done"
    /\ UNCHANGED <<rawData, normalizedEvents, correlations, contributors, actionItems, llm,
                   kv, now, mem, appended, agent, calls>>

(***************************************************************************)
(* Calls of MemoryService, the clock and the other writers of the store    *)
(***************************************************************************)
\* getContext(date)
GetContextCall(dates, faultPool) ==
    /\ \E date \in dates, faults \in faultPool :
           LET result == getContext(kv, date, faults.get, faults.delete)
           IN  /\ kv' = result.store
               /\ mem' = [op |-> "getContext", date |-> date, before |-> kv,
                          faults |-> faults, result |-> result]
    /\ UNCHANGED <<processVars, now, appended, agent, calls>>

RECURSIVE SumLen(_, _)
\* how many entries the lists under the keys hold together
SumLen(lists, keys) ==
    IF keys = {} THEN 0
    ELSE LET k == CHOOSE key \in keys : TRUE
         IN  Len(lists[k]) + SumLen(lists, keys \ {k})

\* updateDailyContext(processedData, report) for a report made now; at most
\* maxUpdates of them
UpdateDailyContextCall(dataPool, faultPool, maxUpdates) ==
    /\ SumLen(appended, DOMAIN appended) < maxUpdates
    /\ \E data \in dataPool, faults \in faultPool :
           LET result == updateDailyContext(kv, data, now, faults)
               dateKey == getDateKey(now)
               before == IF dateKey \in DOMAIN appended THEN appended[dateKey] ELSE <<>>
           IN  /\ kv' = result.store
               /\ mem' = [op |-> "updateDailyContext", date |-> now, before |-> kv,
                          faults |-> faults, result |-> result, data |-> data]
               /\ appended' = IF result.threw THEN appended
                              ELSE SetField(appended, dateKey,
                                            Append(before, HistoryEntry(dateKey, data.action_items)))
    /\ UNCHANGED <<processVars, now, agent, calls>>

\* getContributorProfile(contributorId)
GetContributorProfileCall(ids, faultPool) ==
    /\ \E id \in ids, faults \in faultPool :
           LET result == getContributorProfile(kv, now, id, faults)
           IN  /\ kv' = result.store
               /\ mem' = [op |-> "getContributorProfile", date |-> now, id |-> id,
                          before |-> kv, faults |-> faults, result |-> result]
    /\ UNCHANGED <<processVars, now, appended, agent, calls>>

\* a day passes, up to lastNow
Tick(lastNow) ==
    /\ now + HoursPerDay <= lastNow
    /\ now' = now + HoursPerDay
    /\ mem' = NoCall
    /\ UNCHANGED <<processVars, kv, appended, agent, calls>>

\* another writer of the store leaves a value under the context key of today
ForeignWrite(values) ==
    /\ \E value \in values : kv' = WithKey(kv, ContextKey(getDateKey(now)), value)
    /\ mem' = NoCall
    /\ UNCHANGED <<processVars, now, appended, agent, calls>>

\* the processed data of a run, from its events, contributors and action items
ProcessedOf(events, profiles, items) ==
    [events |-> events, correlations |-> <<>>, contributors |-> profiles,
     action_items |-> items, summary_stats |-> generateSummaryStats(events)]

\* how many halves of updateDailyContext the callers have done so far
CallSteps(cs) == Cardinality(DOMAIN cs) + Cardinality({c \in DOMAIN cs : cs[c].pc = "done"})

\* the first half of updateDailyContext, up to the context getContext
\* resolves to: the caller holds its own copy of it. dataPools gives each
\* caller the processed data it may come with
UpdateReadStep(dataPools) ==
    /\ \E caller \in DOMAIN dataPools :
           /\ caller \notin DOMAIN calls
           /\ \E data \in dataPools[caller] :
                  LET read == getContext(kv, now, FALSE, FALSE)
                      context == IF read.value.found THEN read.value.ctx
                                 ELSE createEmptyContext(getDateKey(now))
                  IN  /\ kv' = read.store
                      /\ calls' = SetField(calls, caller,
                                           [pc |-> "read", data |-> data, date |-> now,
                                            context |-> context,
                                            readAt |-> CallSteps(calls) + 1,
                                            wroteAt |-> 0])
    /\ UNCHANGED <<processVars, now, mem, appended, agent>>

\* the second half of updateDailyContext: the copy is brought up to date and
\* written with kv.set
UpdateWriteStep ==
    /\ \E caller \in DOMAIN calls :
           /\ calls[caller].pc = "read"
           /\ LET call == calls[caller]
                  dateKey == getDateKey(call.date)
                  written == JSONStringify(UpdatedContext(call.context, dateKey, call.data))
              IN  /\ kv' = WithKey(kv, ContextKey(dateKey), written)
                  /\ calls' = SetField(calls, caller,
                                       [call EXCEPT !.pc = "done", !.context = written.ctx,
                                                    !.wroteAt = CallSteps(calls) + 1])
    /\ UNCHANGED <<processVars, now, mem, appended, agent>>

(***************************************************************************)
(* getContext over a store that fails and that other writers spoil         *)
(***************************************************************************)
MaxFaultyUpdates == 2

DEV == <<"d","e","v">>

\* n expertise areas or focus entries: a1, a2, ...
Areas(n) == [i \in 1..n |-> <<"a">> \o NumToString(i)]

\* a stored profile with the given numbers of expertise areas and focus entries
ProfileOf(id, areas, focus) ==
    [id |-> id, name |-> id, platforms |-> SetField(<<>>, GITHUB, id),
     activity_patterns |-> [most_active_hours |-> <<9>>, preferred_platforms |-> <<GITHUB>>,
                            avg_daily_events |-> 1],
     expertise_areas |-> Areas(areas), recent_focus |-> Areas(focus)]

\* a context of the day that holds the profiles
ContextWith(dateKey, profiles) ==
    [createEmptyContext(dateKey) EXCEPT
        !.contributor_profiles = MergeProfiles(<<>>, profiles)]

\* what another writer may leave under a context key: text that is not JSON,
\* JSON of another shape, a number, the empty string, contexts whose profile
\* breaks a bound of the schema, and valid contexts, as text and as an object
ForeignValues ==
    LET day == getDateKey(FirstNow)
    IN  { Stored("garbage", createEmptyContext(day)),
          Stored("foreign", createEmptyContext(day)),
          Stored("number", createEmptyContext(day)),
          Stored("empty", createEmptyContext(day)),
          Stored("json", ContextWith(day, <<ProfileOf(DEV, MaxExpertiseAreas + 1, 0)>>)),
          Stored("object", ContextWith(day, <<ProfileOf(DEV, 0, MaxRecentFocus + 1)>>)),
          Stored("json", ContextWith(day, <<ProfileOf(DEV, MaxExpertiseAreas, MaxRecentFocus)>>)),
          Stored("object", createEmptyContext(day)) }

ReadFaults == [get : BOOLEAN, delete : BOOLEAN, set : {FALSE}]

AllFaults == [get : BOOLEAN, delete : BOOLEAN, set : BOOLEAN]

InitMemoryFaulty == MemoryOnly

NextMemoryFaulty ==
    \/ ForeignWrite(ForeignValues)
    \/ GetContextCall({now}, ReadFaults)
    \/ UpdateDailyContextCall({ProcessedOf(<<>>, <<>>, <<>>)}, AllFaults, MaxFaultyUpdates)

SpecMemoryFaulty == InitMemoryFaulty /\ [][NextMemoryFaulty]_vars

\* the stored value is text that is not JSON
FailsToDeserialize(data) == data.kind = "garbage"

\* the stored value parses (or is an object) and is not a context of the schema
FailsValidation(data) ==
    \/ data.kind = "foreign"
    \/ /\ data.kind \in {"json", "object"}
       /\ \E id \in DOMAIN data.ctx.contributor_profiles :
              \/ Len(data.ctx.contributor_profiles[id].expertise_areas) > 5
              \/ Len(data.ctx.contributor_profiles[id].recent_focus) > 3

\* getContext has just read, without a failure of the read, a stored value
\* that fails to deserialize or fails validation
ReadSpoiledValue ==
    /\ mem.op = "getContext"
    /\ ~mem.faults.get
    /\ ContextKey(getDateKey(mem.date)) \in DOMAIN mem.before
    /\ LET data == mem.before[ContextKey(getDateKey(mem.date))]
       IN  FailsToDeserialize(data) \/ FailsValidation(data)

MaxUpdates == 9

\* an action item of the type, as identifyActionItems returns them
ItemOf(type) ==
    [id |-> ACTION_ \o <<"g","1">>, type |-> type, title |-> <<"t">>,
     description |-> Undefined, url |-> Undefined, assignee |-> Undefined,
     priority |-> PRIORITY_HIGH, created_at |-> 0, platform |-> GITHUB,
     repository |-> Undefined, project |-> Undefined]

\* runs with no action item, and with a review and an overdue item
HistoryPool ==
    { ProcessedOf(<<>>, <<>>, <<>>),
      ProcessedOf(<<>>, <<>>, <<ItemOf("review_needed"), ItemOf("overdue")>>) }

InitHistory == MemoryOnly

NextHistory == UpdateDailyContextCall(HistoryPool, {NoFaults}, MaxUpdates)

SpecHistory == InitHistory /\ [][NextHistory]_vars

\* C4: after any number of updates of a date key the stored history has at
\* most 7 entries; after more than 7 updates it holds the entries the 7 most
\* recent updates appended, in the order they were appended.
C4_HistoryKeepsLastSeven ==
    \A dateKey \in DOMAIN appended :
        LET log == appended[dateKey]
            history == kv[ContextKey(dateKey)].ctx.action_items_history
        IN  /\ Len(history) <= 7
            /\ Len(history) = IF Len(log) > 7 THEN 7 ELSE Len(log)
            /\ \A i \in 1..Len(history) :
                   history[i] = log[Len(log) - Len(history) + i]

\* nine updates of one day, the first two of which differ from the two that
\* took their places
C4_Witness ==
    \E dateKey \in DOMAIN appended :
        /\ Len(appended[dateKey]) = 9
        /\ Len(kv[ContextKey(dateKey)].ctx.action_items_history) = 7
        /\ appended[dateKey][1] # appended[dateKey][3]
        /\ appended[dateKey][2] # appended[dateKey][9]

(***************************************************************************)
(* Recalling a profile as the days pass                                    *)
(***************************************************************************)
MaxDays == 9

MaxStores == 2

NOBODY == <<"n","o","b","o","d","y">>

\* runs that saw DEV (two profiles that differ), and a run that saw nobody
RecallPool ==
    { ProcessedOf(<<>>, <<ProfileOf(DEV, 1, 1)>>, <<>>),
      ProcessedOf(<<>>, <<ProfileOf(DEV, 2, 0)>>, <<>>),
      ProcessedOf(<<>>, <<>>, <<>>) }

InitRecall == MemoryOnly

NextRecall ==
    \/ UpdateDailyContextCall(RecallPool, {NoFaults}, MaxStores)
    \/ Tick(FirstNow + MaxDays * HoursPerDay)
    \/ GetContributorProfileCall({DEV, NOBODY}, {NoFaults})

SpecRecall == InitRecall /\ [][NextRecall]_vars

\* the days, among the 7 that end with the day of the call, whose stored
\* context holds a profile for the id
DaysHolding(store, today, id) ==
    {d \in (today - 6)..today :
        /\ ContextKey(d) \in DOMAIN store
        /\ id \in DOMAIN store[ContextKey(d)].ctx.contributor_profiles}

\* the greatest of a non-empty set of days
Latest(days) == CHOOSE d \in days : \A e \in days : e <= d

\* C5: getContributorProfile returns the profile stored for the id under the
\* most recent of the 7 days today, today-1, ..., today-6 that has one, and
\* absent when none has: a profile stored under day D is returned at D+3 and
\* is absent past D+8 when no later day holds one.
C5_RecallWithinSevenDays ==
    mem.op = "getContributorProfile" =>
        LET today == mem.date \div 24
            days == DaysHolding(mem.before, today, mem.id)
        IN  /\ mem.result.value.found <=> days # {}
            /\ days # {} =>
                   mem.result.value.profile =
                       mem.before[ContextKey(Latest(days))].ctx.contributor_profiles[mem.id]
            /\ \A i \in DOMAIN mem.result.calls :
                   /\ mem.result.calls[i].op = "get"
                   /\ mem.result.calls[i].key = ContextKey(today - (i - 1))
            /\ Len(mem.result.calls) <= 7

\* the only profile of DEV sits under a day 9 days back, and absent came back
C5_Witness ==
    /\ mem.op = "getContributorProfile"
    /\ mem.id = DEV
    /\ ~mem.result.value.found
    /\ \E d \in {(mem.date \div 24) - 9} :
           /\ ContextKey(d) \in DOMAIN mem.before
           /\ DEV \in DOMAIN mem.before[ContextKey(d)].ctx.contributor_profiles

\* the profile of DEV stored three days back came back
C5_FoundAtDayThree ==
    /\ mem.op = "getContributorProfile"
    /\ mem.id = DEV
    /\ mem.result.value.found
    /\ DaysHolding(mem.before, mem.date \div 24, DEV) = {(mem.date \div 24) - 3}

(***************************************************************************)
(* Profiles from memory, from the collaborator and from the fallback       *)
(***************************************************************************)
MaxProfileBatch == 2

\* what the calls of the collaborator come to when it is down
RefsFailure == [ok |-> FALSE, object |-> [correlations |-> <<>>]]

\* an analysis with the given numbers of expertise areas and focus entries
Analysis(areas, focus) ==
    [ok |-> TRUE,
     object |-> [preferred_platforms |-> <<SLACK>>, expertise_areas |-> Areas(areas),
                 recent_focus |-> Areas(focus), avg_daily_events |-> 2]]

AnalysisFailure == [ok |-> FALSE, object |-> Analysis(0, 0).object]

\* what the analysis call can come back with: a failure, lists at their
\* bounds, lists one beyond a bound, and empty lists
TraitAnswers ==
    { AnalysisFailure,
      Analysis(AnalysisMaxExpertise, AnalysisMaxFocus),
      Analysis(AnalysisMaxExpertise + 1, 0),
      Analysis(0, AnalysisMaxFocus + 1),
      Analysis(0, 0) }

\* a store that holds, under the day daysBack days before the first run, a
\* context with the profiles, as updateDailyContext writes it
StoreWith(daysBack, profiles) ==
    LET day == getDateKey(DaysBefore(FirstNow, daysBack))
    IN  SetField(<<>>, ContextKey(day), JSONStringify(ContextWith(day, profiles)))

\* an empty store, stores with a profile of DEV at its bounds under yesterday
\* and under the last day recalled, and a store another writer left a profile
\* beyond the bounds in
ProfileStores ==
    { <<>>,
      StoreWith(1, <<ProfileOf(DEV, MaxExpertiseAreas, MaxRecentFocus)>>),
      StoreWith(RecallDays - 1, <<ProfileOf(DEV, 1, MaxRecentFocus)>>),
      StoreWith(2, <<ProfileOf(DEV, MaxExpertiseAreas + 1, MaxRecentFocus + 1)>>) }

ProfilePool ==
    { BaseEvent(<<"g","1">>, GITHUB, PR_OPENED, DEV, 5, <<"o","n","e">>),
      BaseEvent(<<"s","1">>, SLACK, MESSAGE_SENT, DEV, 30, <<"t","w","o">>),
      BaseEvent(<<"l","1">>, LINEAR, ISSUE_CREATED, ACME, 29, <<"o","n","e">>) }

InitProfiles ==
    \E events \in SeqsUpTo(ProfilePool, MaxProfileBatch), store \in ProfileStores :
        StartOver(events, store)

NextProfiles ==
    \/ NormalizeStep
    \/ FindCorrelationsStep({RefsFailure})
    \/ BuildContributorProfilesStep(TraitAnswers)

SpecProfiles == InitProfiles /\ [][NextProfiles]_vars

\* C10: every profile buildContributorProfiles returns has at most 5
\* expertise areas and at most 3 recent-focus entries, whether it was seeded
\* from memory, filled from an answer of the collaborator, or completed by the
\* fallback.
C10_ProfileListsBounded ==
    pc = "profiled" =>
        \A i \in DOMAIN contributors :
            /\ Len(contributors[i].expertise_areas) <= 5
            /\ Len(contributors[i].recent_focus) <= 3

\* a profile seeded from memory with 5 areas and 3 focus entries, and
\* completed by the fallback
C10_Witness ==
    /\ pc = "profiled"
    /\ \E i \in DOMAIN contributors :
           /\ llm.traits[i] = "failed"
           /\ contributors[i].id = DEV
           /\ Len(contributors[i].expertise_areas) = 5
           /\ Len(contributors[i].recent_focus) = 3
           /\ contributors[i].activity_patterns.avg_daily_events
                  = Cardinality({j \in DOMAIN normalizedEvents :
                                    normalizedEvents[j].author.id = DEV})

(***************************************************************************)
(* Action items from many events and from long answers                     *)
(***************************************************************************)
MaxReviews == 22

MaxItems == 22

\* the i-th pull request that waits for a review
ReviewEvent(i) ==
    [BaseEvent(<<"r">> \o NumToString(i), GITHUB, PR_REVIEW_REQUESTED, DEV, i, <<"r">>)
        EXCEPT !.priority = PRIORITY_HIGH, !.assignees = <<DEV, ACME>>]

ReviewBatch(n) == [i \in 1..n |-> ReviewEvent(i)]

UrgentIssue ==
    [BaseEvent(<<"l","1">>, LINEAR, URGENT_ISSUE, ACME, 0, <<"u">>)
        EXCEPT !.priority = PRIORITY_URGENT]

\* an item of the collaborator about the event
ItemAbout(eventId, type) ==
    [event_id |-> eventId, type |-> type, title |-> <<"t">>, description |-> Null,
     priority |-> PRIORITY_HIGH, assignee |-> Undefined]

ItemsFailure == [ok |-> FALSE, object |-> [action_items |-> <<>>]]

\* what the action-item call can come back with on the events: a failure, an
\* item of a type the schema rejects, and 0, 1 and many items about the first
\* event or about an event that is not there
ItemAnswers(events, most) ==
    LET ids == {events[i].id : i \in DOMAIN events \cap {1}} \cup {<<"x","9">>}
    IN  {ItemsFailure}
        \cup {[ok |-> TRUE, object |-> [action_items |-> <<ItemAbout(id, "stalled")>>]] : id \in ids}
        \cup {[ok |-> TRUE,
               object |-> [action_items |-> [i \in 1..m |-> ItemAbout(id, "blocked")]]] :
                  id \in ids, m \in {0, 1, most}}

InitActionItems ==
    \E n \in 0..MaxReviews, extra \in {<<>>, <<UrgentIssue>>} :
        StartOf(ReviewBatch(n) \o extra)

NextActionItems ==
    \/ NormalizeStep
    \/ FindCorrelationsStep({RefsFailure})
    \/ BuildContributorProfilesStep({AnalysisFailure})
    \/ IdentifyActionItemsStep(ItemAnswers(normalizedEvents, MaxItems))

SpecActionItems == InitActionItems /\ [][NextActionItems]_vars

\* C9: identifyActionItems returns at most 20 action items, on the primary
\* path for any number of items of the collaborator and on the fallback path
\* for any number of qualifying events.
C9_AtMostTwentyItems ==
    pc = "identified" => Len(actionItems) <= 20

\* the fallback ran over more than 20 pull requests that wait for a review
C9_Witness ==
    /\ pc = "identified"
    /\ llm.items = "failed"
    /\ Len(actionItems) = 20
    /\ Cardinality({i \in DOMAIN normalizedEvents :
                       /\ normalizedEvents[i].subtype = PR_REVIEW_REQUESTED
                       /\ normalizedEvents[i].priority = PRIORITY_HIGH}) > 20

\* the collaborator answered more than 20 items about an event of the batch
C9_PrimaryPathCapped ==
    /\ pc = "identified"
    /\ llm.items = "answered"
    /\ Len(actionItems) = 20
    /\ Len(normalizedEvents) = 1

(***************************************************************************)
(* processAndCorrelate with a collaborator that fails at any call site     *)
(***************************************************************************)
MaxProcessBatch == 2

\* a pull request that waits for a review, a chat message about it, and an
\* urgent tracker issue
ProcessPool ==
    { [ReviewEvent(7) EXCEPT !.metadata.pr_number = 7, !.repository = WEB],
      BaseEvent(<<"s","1">>, SLACK, MESSAGE_SENT, ACME, 8, <<"s","e","e"," ","P","R"," ","7">>),
      UrgentIssue }

ProcessRefAnswers ==
    { RefsFailure,
      [ok |-> TRUE, object |-> [correlations |->
          <<Reference(<<"s","1">>, <<"P","R"," ","7">>, "pr", 9)>>]] }

ProcessTraitAnswers == {AnalysisFailure, Analysis(1, 1), Analysis(AnalysisMaxExpertise + 1, 0)}

InitProcess ==
    \E events \in SeqsUpTo(ProcessPool, MaxProcessBatch),
       store \in {<<>>, StoreWith(1, <<ProfileOf(DEV, MaxExpertiseAreas, MaxRecentFocus)>>)} :
        StartOver(events, store)

NextProcess ==
    \/ NormalizeStep
    \/ FindCorrelationsStep(ProcessRefAnswers)
    \/ BuildContributorProfilesStep(ProcessTraitAnswers)
    \/ IdentifyActionItemsStep(ItemAnswers(normalizedEvents, 2))
    \/ ReturnStep

SpecProcess == InitProcess /\ [][NextProcess]_vars

\* C2: a failure of the collaborator at any of its three call sites, in any
\* combination, never aborts processAndCorrelate: the run returns a
\* ProcessedData value that holds all normalized events and the summary
\* statistics.
C2_CollaboratorFailureNeverAborts ==
    /\ ~processedData.threw
    /\ pc = "done" =>
           /\ processedData.returned
           /\ processedData.value.events = normalizedEvents
           /\ processedData.value.summary_stats.total_events = Len(normalizedEvents)
           /\ \A type \in Platforms :
                  CountOf(processedData.value.summary_stats.events_by_platform, type)
                      = Cardinality({i \in DOMAIN normalizedEvents :
                                        normalizedEvents[i].type = type})

\* a run in which all three call sites failed, and which returned
C2_Witness ==
    /\ pc = "done"
    /\ processedData.returned
    /\ llm.refs = "failed"
    /\ llm.items = "failed"
    /\ \A i \in DOMAIN llm.traits : llm.traits[i] = "failed"
    /\ Len(llm.traits) = 2
    /\ Len(processedData.value.action_items) = 1

(***************************************************************************)
(* The trending topics of an update                                        *)
(***************************************************************************)
MaxTopicUpdates == 2

MaxTopicBatch == 2

\* word1, word2, ...
TopicWord(i) == <<"w","o","r","d">> \o NumToString(i)

\* the words i of the sequence, each reps times in a row, as a text
TopicText(numbers, reps) ==
    JoinWith(Concat([k \in DOMAIN numbers |-> [r \in 1..reps |-> TopicWord(numbers[k])]]),
             <<" ">>)

\* a pull request that names eleven words twice each, a chat message that
\* names them from the last to the first, one of them three times, a tracker issue that
\* repeats one of them, a short word and a longer word, with capitals, and a
\* message that names the first five once more
TopicPool ==
    { BaseEvent(<<"g","1">>, GITHUB, PR_OPENED, DEV, 5,
                TopicText(<<1, 2, 3, 4, 5, 6, 7, 8, 9, 10, 11>>, 2)),
      BaseEvent(<<"s","1">>, SLACK, MESSAGE_SENT, DEV, 4,
                TopicText(<<11, 10, 9, 8, 7, 7, 7, 6, 5, 4, 3, 2, 1>>, 1)),
      [BaseEvent(<<"l","1">>, LINEAR, ISSUE_CREATED, ACME, 3,
                 <<"W","o","r","d","3"," ","w","o","r","d","3",","," ","W","O","R","D","3","!">>)
          EXCEPT !.description = <<"a","b","c"," ","a","b","c"," ","a","b","c"," ",
                                   "w","o","r","d","3","0"," ","w","o","r","d","3","0"," ",
                                   "w","o","r","d","3","0"," ","x","w","o","r","d","3">>],
      BaseEvent(<<"d","1">>, DISCORD, MESSAGE_SENT, ACME, 2, TopicText(<<5, 4, 3, 2, 1>>, 1)) }

\* the runs whose events are the batch
TopicRuns == {ProcessedOf(events, <<>>, <<>>) : events \in SeqsUpTo(TopicPool, MaxTopicBatch)}

InitTopics == MemoryOnly

NextTopics == UpdateDailyContextCall(TopicRuns, {NoFaults}, MaxTopicUpdates)

SpecTopics == InitTopics /\ [][NextTopics]_vars

\* does the text hold the keyword as a word of its own, in any case
HoldsWord(text, keyword) ==
    LET lower == ToLowerCase(text)
    IN  \E i \in 1..Len(lower) :
            /\ MatchesAt(lower, keyword, i)
            /\ i = 1 \/ ~IsWordChar(lower[i - 1])
            /\ i + Len(keyword) > Len(lower) \/ ~IsWordChar(lower[i + Len(keyword)])

\* the trending topics the last update stored
StoredTopics == kv[ContextKey(getDateKey(mem.date))].ctx.trending_topics

\* C11: the trending topics stored by an update are at most 10, in order of
\* non-increasing frequency, and each has a frequency above 2, a keyword of at
\* least 4 characters, and as contexts the distinct platforms of the events
\* that contain the keyword.
C11_TrendingTopicsWellFormed ==
    mem.op = "updateDailyContext" =>
        LET topics == StoredTopics
        IN  /\ Len(topics) <= 10
            /\ \A i, j \in DOMAIN topics : i < j => topics[i].frequency >= topics[j].frequency
            /\ \A i \in DOMAIN topics :
                   /\ topics[i].frequency > 2
                   /\ Len(topics[i].keyword) >= 4
                   /\ Range(topics[i].contexts) =
                          {e.type : e \in {x \in Range(mem.data.events) :
                                              HoldsWord(EventText(x), topics[i].keyword)}}
                   /\ Cardinality(Range(topics[i].contexts)) = Len(topics[i].contexts)

\* more than ten keywords were named more than twice, and the first stored
\* topic was not the first one named
C11_Witness ==
    /\ mem.op = "updateDailyContext"
    /\ Len(StoredTopics) = 10
    /\ Len(mem.data.events) = 2
    /\ StoredTopics[1].frequency > StoredTopics[10].frequency
    /\ StoredTopics[1].keyword # TopicWord(1)
    /\ \E i \in DOMAIN StoredTopics : Len(StoredTopics[i].contexts) = 2

(***************************************************************************)
(* The Agent: one run from the collectors to the response                  *)
(***************************************************************************)
\* a collector's promise as Promise.allSettled reports it
Fulfilled(events) == [status |-> "fulfilled", value |-> events]

Rejected == [status |-> "rejected"]

\* githubData.status === 'fulfilled' ? githubData.value : []
ValueOrEmpty(settled) == IF settled.status = "fulfilled" THEN settled.value ELSE <<>>

\* rawData of the Agent: the object literal names three sources
AgentRawData(githubData, slackData, linearData) ==
    [github |-> ValueOrEmpty(githubData), slack |-> ValueOrEmpty(slackData),
     linear |-> ValueOrEmpty(linearData)]

\* the Agent up to the call of processAndCorrelate: the three collectors
\* settle and rawData is built from them
AgentCollectStep(githubPool, slackPool, linearPool) ==
    /\ agent.pc = "idle"
    /\ \E githubData \in githubPool, slackData \in slackPool, linearData \in linearPool :
           /\ rawData' = AgentRawData(githubData, slackData, linearData)
           /\ agent' = [agent EXCEPT !.pc = "collected",
                                     !.settled = <<githubData, slackData, linearData>>]
    /\ pc' = "start"
    /\ normalizedEvents' = <<>>
    /\ correlations' = <<>>
    /\ contributors' = <<>>
    /\ actionItems' = <<>>
    /\ processedData' = NotReturned
    /\ llm' = NoAnswers
    /\ UNCHANGED <<kv, now, mem, appended, calls>>

\* the catch block of the Agent: the error response
ErrorResponse(run) == [run EXCEPT !.pc = "responded", !.response = "error"]

\* the await of processAndCorrelate settles: an exception lands in the catch
\* block of the Agent
AgentProcessedStep ==
    /\ agent.pc = "collected"
    /\ pc = "done"
    /\ agent' = IF processedData.threw THEN ErrorResponse(agent)
                ELSE [agent EXCEPT !.pc = "processed"]
    /\ UNCHANGED <<processVars, kv, now, mem, appended, calls>>

\* the loop of getVelocityTrends over the dates to read: the store the reads
\* of getContext leave, the dates after a read that threw not being read
ScanContexts(store, dates, faults) ==
    LET ScanDate(scan, date) ==
            IF scan.threw THEN scan
            ELSE LET read == getContext(scan.store, date, faults.get, faults.delete)
                 IN  [store |-> read.store, threw |-> read.threw]
    IN  ForEach(ScanDate, [store |-> store, threw |-> FALSE], dates, 1, Len(dates)).store

\* getVelocityTrends(7) with the clock at now, as far as the store goes
getVelocityTrends(store, now_, faults) ==
    ScanContexts(store, getRecentDates(now_, RecallDays), faults)

\* storeReport(report): [store, threw]; a failing kv.set is not caught
storeReport(store, report, faults) ==
    [store |-> IF faults.set THEN store
               ELSE WithKey(store, ReportKey(getDateKey(report.date)), Stored("json", report)),
     threw |-> faults.set]

\* getPreviousReport(currentDate): [found, report], found = FALSE being
\* null; a failure of the read is caught
getPreviousReport(store, currentDate, faults) ==
    LET dateKey == getDateKey(DaysBefore(currentDate, 1))
    IN  IF faults.get \/ ReportKey(dateKey) \notin DOMAIN store
        THEN [found |-> FALSE, report |-> NoReport]
        ELSE [found |-> TRUE, report |-> store[ReportKey(dateKey)].ctx]

\* yesterday of the Agent: new Date(now.getTime() - 24 * 60 * 60 * 1000)
Yesterday(now_) == now_ - HoursPerDay

\* generateDailyReport(processedData, startDate, endDate) with the clock at
\* now: [store, report, previous]. The reads of memory catch their failures;
\* a failure of generateText or of storeReport lands in the catch block,
\* which builds the fallback report. Either report is dated new Date().
generateDailyReport(store, startDate, now_, textFails, faults) ==
    LET previousReport == getPreviousReport(store, startDate, faults)
        read == getVelocityTrends(store, now_, faults)
        report == [date |-> now_, fallback |-> FALSE]
        stored == storeReport(read, report, faults)
    IN  IF textFails \/ stored.threw
        THEN [store |-> read, report |-> [date |-> now_, fallback |-> TRUE],
              previous |-> previousReport]
        ELSE [store |-> stored.store, report |-> report, previous |-> previousReport]

\* the Agent from the return of processAndCorrelate to the report
AgentReportStep(textPool, faultPool) ==
    /\ agent.pc = "processed"
    /\ \E textFails \in textPool, faults \in faultPool :
           LET generated == generateDailyReport(kv, Yesterday(now), now, textFails, faults)
           IN  /\ kv' = generated.store
               /\ agent' = [agent EXCEPT !.pc = "reported", !.report = generated.report,
                                         !.previous = generated.previous]
    /\ UNCHANGED <<processVars, now, mem, appended, calls>>

\* await memoryService.updateDailyContext(processedData, report)
AgentUpdateStep(faultPool) ==
    /\ agent.pc = "reported"
    /\ \E faults \in faultPool :
           LET result == updateDailyContext(kv, processedData.value, agent.report.date, faults)
           IN  /\ kv' = result.store
               /\ agent' = IF result.threw THEN ErrorResponse(agent)
                           ELSE [agent EXCEPT !.pc = "updated"]
    /\ UNCHANGED <<processVars, now, mem, appended, calls>>

\* await memoryService.storeReport(report)
AgentStoreStep(faultPool) ==
    /\ agent.pc = "updated"
    /\ \E faults \in faultPool :
           LET result == storeReport(kv, agent.report, faults)
           IN  /\ kv' = result.store
               /\ agent' = IF result.threw THEN ErrorResponse(agent)
                           ELSE [agent EXCEPT !.pc = "stored"]
    /\ UNCHANGED <<processVars, now, mem, appended, calls>>

\* what postReport comes to: the message is posted, the request fails or is
\* refused (caught: ok is false), or no report channel is configured (thrown)
PostOutcomes == {"ok", "failed", "threw"}

\* formatForSlack, postReport and the response
AgentPostStep(postPool) ==
    /\ agent.pc = "stored"
    /\ \E outcome \in postPool :
           agent' = IF outcome = "threw" THEN ErrorResponse([agent EXCEPT !.posted = outcome])
                    ELSE [agent EXCEPT !.pc = "responded", !.posted = outcome,
                                       !.response = "success"]
    /\ UNCHANGED <<processVars, kv, now, mem, appended, calls>>

\* a run whose rawData holds the four arrays processAndCorrelate declares, up
\* to the return of processAndCorrelate with one of the values
AgentProcessedRun(dataPool) ==
    /\ agent.pc = "idle"
    /\ \E data \in dataPool :
           /\ rawData' = BySource(data.events)
           /\ normalizedEvents' = data.events
           /\ correlations' = data.correlations
           /\ contributors' = data.contributors
           /\ actionItems' = data.action_items
           /\ processedData' = [returned |-> TRUE, threw |-> FALSE, value |-> data]
    /\ pc' = "done"
    /\ agent' = [agent EXCEPT !.pc = "processed"]
    /\ UNCHANGED <<llm, kv, now, mem, appended, calls>>

\* the trigger of the next day: the clock is a day on and the Agent is called
\* again
AgentNextDay(lastNow) ==
    /\ agent.pc = "responded"
    /\ now + HoursPerDay <= lastNow
    /\ now' = now + HoursPerDay
    /\ agent' = NoRun
    /\ UNCHANGED <<processVars, kv, mem, appended, calls>>

(***************************************************************************)
(* SlackService.convertMessagesToEvents                                    *)
(* A message is [ts, user, bot, text, thread, files, reactions]; ts is     *)
(* taken in hours, so that new Date(parseFloat(ts) * 1000) is ts.          *)
(***************************************************************************)
\* text.replace(/<[^>]*>/g, ''): a character is replaced away when a "<" at or
\* before it has no ">" between the two and a ">" at or after the character
StripTags(s) ==
    LET InTag(i) == \E j \in 1..i :
                        /\ s[j] = "<"
                        /\ \A k \in (j + 1)..(i - 1) : s[k] # ">"
                        /\ \E k \in (j + 1)..Len(s) : k >= i /\ s[k] = ">"
        kept == Positions(s, LAMBDA i : ~InTag(i))
    IN  [n \in DOMAIN kept |-> s[kept[n]]]

RECURSIVE Trim(_)
\* String.prototype.trim
Trim(s) ==
    IF Len(s) = 0 THEN s
    ELSE IF IsSpace(s[1]) THEN Trim(Tail(s))
    ELSE IF IsSpace(s[Len(s)]) THEN Trim(SubSeq(s, 1, Len(s) - 1))
    ELSE s

MaxTitleLength == 80

\* the paperclip the title of a message with files starts with
PAPERCLIP == <<"(","c","l","i","p",")"," ">>

generateMessageTitle(text, isThread, hasFiles) ==
    LET stripped == Trim(StripTags(text))
        cut == IF Len(stripped) > MaxTitleLength
               THEN SubSeq(stripped, 1, MaxTitleLength) \o <<".",".",".">>
               ELSE stripped
        threaded == IF isThread THEN <<"T","h","r","e","a","d",":"," ">> \o cut ELSE cut
        title == IF hasFiles THEN PAPERCLIP \o threaded ELSE threaded
    IN  OrElse(title, <<"M","e","s","s","a","g","e">>)

\* the number of mentions extractMentions finds: the matches of
\* /<@U[A-Z0-9]+>/g and of /<#C[A-Z0-9]+\|[^>]+>/g
MentionCount(text) ==
    LET cls == Range(UpperChars) \cup Digits
        UserAt(i) == /\ MatchesAt(text, <<"<","@","U">>, i)
                     /\ LET e == RunEnd(text, i + 3, cls)
                        IN  e > i + 3 /\ e <= Len(text) /\ text[e] = ">"
        ChannelAt(i) == /\ MatchesAt(text, <<"<","#","C">>, i)
                        /\ LET e == RunEnd(text, i + 3, cls)
                           IN  /\ e > i + 3 /\ e + 2 <= Len(text)
                               /\ text[e] = "|" /\ text[e + 1] # ">"
                               /\ \E j \in (e + 2)..Len(text) : text[j] = ">"
    IN  Cardinality({i \in DOMAIN text : UserAt(i)})
            + Cardinality({i \in DOMAIN text : ChannelAt(i)})

MaxQuietMentions == 3

determinePriority(text, mentions, hasFiles, hasReactions) ==
    LET lowerText == ToLowerCase(text)
    IN  IF \/ Includes(lowerText, <<"u","r","g","e","n","t">>)
           \/ Includes(lowerText, <<"a","s","a","p">>)
           \/ Includes(lowerText, <<"c","r","i","t","i","c","a","l">>)
        THEN PRIORITY_URGENT
        ELSE IF \/ mentions > MaxQuietMentions
                \/ Includes(lowerText, <<"e","v","e","r","y","o","n","e">>)
                \/ Includes(lowerText, <<"@","c","h","a","n","n","e","l">>)
        THEN PRIORITY_HIGH
        ELSE IF \/ hasFiles
                \/ mentions > 0
                \/ Includes(lowerText, <<"r","e","v","i","e","w">>)
                \/ Includes(lowerText, <<"h","e","l","p">>)
        THEN PRIORITY_MEDIUM
        ELSE PRIORITY_LOW

\* the subtype of the event of a message
MessageSubtype(message) ==
    IF message.thread THEN <<"t","h","r","e","a","d","_","r","e","p","l","y">>
    ELSE IF message.files > 0 THEN <<"f","i","l","e","_","s","h","a","r","e","d">>
    ELSE IF Len(message.reactions) > 0
         THEN <<"m","e","s","s","a","g","e","_","w","i","t","h","_",
                "r","e","a","c","t","i","o","n","s">>
    ELSE MESSAGE_SENT

\* the event pushed for one reaction of a message
ReactionEvent(message, reaction, channelId) ==
    [BaseEvent(<<"s","l","a","c","k","_","r","e","a","c","t","i","o","n","_">>
                   \o NumToString(message.ts) \o <<"_">> \o reaction.name,
               SLACK, REACTION_ADDED, SYSTEM, message.ts,
               NumToString(reaction.count) \o <<" ">> \o reaction.name
                   \o <<" ","r","e","a","c","t","i","o","n","s">>)
        EXCEPT !.author.name = <<"S","l","a","c","k"," ","R","e","a","c","t","i","o","n","s">>,
               !.description = <<"R","e","a","c","t","i","o","n"," ">> \o reaction.name
                                   \o <<" ","a","d","d","e","d"," ","t","o"," ",
                                        "m","e","s","s","a","g","e">>,
               !.channel = channelId,
               !.priority = PRIORITY_LOW]

\* the events pushed for one message: none for a message without a user, of a
\* bot or of a user the userMap does not know
MessageEvents(message, users, channelId) ==
    IF message.user = Undefined \/ message.bot \/ message.user \notin users THEN <<>>
    ELSE <<[BaseEvent(<<"s","l","a","c","k","_">> \o NumToString(message.ts)
                          \o <<"_">> \o channelId,
                      SLACK, MessageSubtype(message), message.user, message.ts,
                      generateMessageTitle(message.text, message.thread, message.files > 0))
               EXCEPT !.description = message.text,
                      !.channel = channelId,
                      !.priority = determinePriority(message.text, MentionCount(message.text),
                                                     message.files > 0,
                                                     Len(message.reactions) > 0)]>>
         \o [i \in DOMAIN message.reactions |->
                ReactionEvent(message, message.reactions[i], channelId)]

convertMessagesToEvents(messages, users, channelId) ==
    Concat([i \in DOMAIN messages |-> MessageEvents(messages[i], users, channelId)])

(***************************************************************************)
(* Runs of the Agent whose collectors fail or succeed                      *)
(***************************************************************************)
MaxCollected == 2

\* what a collector may settle to: rejected, or fulfilled with up to
\* MaxCollected events
Outcomes(event) ==
    {Rejected} \cup {Fulfilled(events) : events \in SeqsUpTo({event}, MaxCollected)}

GithubOutcomes == Outcomes(BaseEvent(<<"g","1">>, GITHUB, PR_OPENED, DEV, 5, <<"f","i","x">>))

SlackOutcomes == Outcomes(BaseEvent(<<"s","1">>, SLACK, MESSAGE_SENT, DEV, 4, <<"h","i">>))

LinearOutcomes == Outcomes(BaseEvent(<<"l","1">>, LINEAR, ISSUE_CREATED, ACME, 3, <<"b","u","g">>))

InitAgent == MemoryOnly

\* the steps of processAndCorrelate after the first are not listed: no run
\* of the Agent gets to them
NextAgent ==
    \/ AgentCollectStep(GithubOutcomes, SlackOutcomes, LinearOutcomes)
    \/ NormalizeStep
    \/ AgentProcessedStep

SpecAgent == InitAgent /\ [][NextAgent]_vars

\* the events of the collectors that succeeded, in the order of allEvents
CollectedEvents == ValueOrEmpty(agent.settled[1]) \o ValueOrEmpty(agent.settled[2])
                       \o ValueOrEmpty(agent.settled[3])

\* C12: a run whose collectors fail in any subset takes a failed source as an
\* empty list and processes the events of the others; it does not end in the
\* error response because a source is unavailable or absent.
C12_FailedSourcesAreEmptyInput ==
    agent.pc = "responded" =>
        /\ agent.response # "error"
        /\ processedData.returned
        /\ processedData.value.events = normalizeEvents(CollectedEvents)

(***************************************************************************)
(* One run of the Agent a day, over a store that works                     *)
(***************************************************************************)
MaxRunDays == 9

\* what processAndCorrelate returned: an empty day, and a day with a pull
\* request of a known contributor
RunData ==
    { ProcessedOf(<<>>, <<>>, <<>>),
      ProcessedOf(<<BaseEvent(<<"g","1">>, GITHUB, PR_OPENED, DEV, 5, <<"f","i","x">>)>>,
                  <<ProfileOf(<<"d","e","v">>, 1, 1)>>, <<>>) }

InitAgentDays == MemoryOnly

NextAgentDays ==
    \/ AgentProcessedRun(RunData)
    \/ AgentReportStep({FALSE}, {NoFaults})
    \/ AgentUpdateStep({NoFaults})
    \/ AgentStoreStep({NoFaults})
    \/ AgentPostStep({"ok"})
    \/ AgentNextDay(FirstNow + (MaxRunDays - 1) * HoursPerDay)

SpecAgentDays == InitAgentDays /\ [][NextAgentDays]_vars

\* the date keys of the context entries of the store
ContextDates == {key[2] : key \in {k \in DOMAIN kv : k[1] = "context:"}}

\* C13: after any sequence of runs on successive days, no context entry dated
\* more than 7 days before the latest run remains in the store.
C13_NoContextOlderThanSevenDays ==
    agent.pc = "responded" =>
        \A dateKey \in ContextDates : dateKey >= getDateKey(now) - 7

(***************************************************************************)
(* Chat messages with reactions, converted and normalised                  *)
(***************************************************************************)
MaxMessages == 2

GENERAL == <<"C","1">>

\* the users of the userMap
KnownUsers == {DEV, ACME}

Reaction(name, count) == [name |-> name, count |-> count]

Message(ts, user, text, reactions) ==
    [ts |-> ts, user |-> user, bot |-> FALSE, text |-> text, thread |-> FALSE, files |-> 0,
     reactions |-> reactions]

THUMBS == <<"t","h","u","m","b","s","u","p">>

EYES == <<"e","y","e","s">>

\* messages of one channel, each with its own ts: without a reaction, with
\* one, with two and with three, in a thread, with a file and a mention, of a
\* bot, of an unknown user, and with a text longer than a title
MessagePool ==
    { Message(1, DEV, <<"h","i">>, <<>>),
      Message(2, ACME, <<"h","e","l","p"," ","m","e">>, <<Reaction(THUMBS, 2)>>),
      Message(3, DEV, <<"u","r","g","e","n","t"," ","f","i","x">>,
              <<Reaction(THUMBS, 2), Reaction(EYES, 1)>>),
      [Message(4, ACME, <<" ","<","@","U","1",">"," ","s","e","e"," ">>,
               <<Reaction(EYES, 1), Reaction(THUMBS, 1), Reaction(<<"t","a","d","a">>, 4)>>)
          EXCEPT !.files = 1],
      [Message(5, DEV, <<"o","k">>, <<Reaction(EYES, 1)>>) EXCEPT !.thread = TRUE],
      [Message(6, DEV, <<"b","u","i","l","d">>, <<Reaction(EYES, 1)>>) EXCEPT !.bot = TRUE],
      Message(7, NOBODY, <<"h","i">>, <<Reaction(EYES, 1)>>),
      Message(8, ACME, [i \in 1..(MaxTitleLength + 1) |-> "x"], <<>>) }

\* the messages of the channel history: no two with the same ts
Histories ==
    {messages \in SeqsUpTo(MessagePool, MaxMessages) :
        \A i, j \in DOMAIN messages : i # j => messages[i].ts # messages[j].ts}

\* the collector of the chat platform answers with the events of the
\* messages; rawData holds the four arrays processAndCorrelate declares
SlackCollectStep(histories) ==
    /\ agent.pc = "idle"
    /\ \E messages \in histories :
           /\ rawData' = BySource(convertMessagesToEvents(messages, KnownUsers, GENERAL))
           /\ agent' = [agent EXCEPT !.pc = "collected", !.settled = messages]
    /\ pc' = "start"
    /\ UNCHANGED <<normalizedEvents, correlations, contributors, actionItems, processedData,
                   llm, kv, now, mem, appended, calls>>

InitSlack == MemoryOnly

NextSlack == SlackCollectStep(Histories) \/ NormalizeStep

SpecSlack == InitSlack /\ [][NextSlack]_vars

\* the distinct reactions a message carries
ReactionNames(message) == {message.reactions[i].name : i \in DOMAIN message.reactions}

\* the normalised events that come from the message: its own and those of its
\* reactions
NormalizedOf(message) ==
    {e \in Range(normalizedEvents) :
        /\ e.timestamp = message.ts
        /\ \/ e.author.id = message.user
           \/ e.subtype = REACTION_ADDED}

\* C14: a chat message with k distinct reactions gives one event for the
\* message and one per reaction, and all k+1 are in the normalised events.
C14_MessageAndReactionsAllKept ==
    pc = "normalized" =>
        \A i \in DOMAIN agent.settled :
            LET message == agent.settled[i]
            IN  (message.user \in KnownUsers /\ ~message.bot) =>
                    /\ Len(MessageEvents(message, KnownUsers, GENERAL))
                           = Cardinality(ReactionNames(message)) + 1
                    /\ Cardinality(NormalizedOf(message))
                           = Cardinality(ReactionNames(message)) + 1

(***************************************************************************)
(* Two calls of updateDailyContext on one date key                         *)
(***************************************************************************)
\* the two callers
Callers == {1, 2}

\* the contributor each caller comes with
RaceAuthor == <<DEV, ACME>>

\* the action items each caller comes with: one, and two
RaceItems == <<<<ItemOf("review_needed")>>, <<ItemOf("overdue"), ItemOf("overdue")>>>>

\* the processed data of a caller: its items, and its contributor's profile
\* in one of four shapes, or no profile
RaceData ==
    [caller \in Callers |->
        {ProcessedOf(<<>>, profiles, RaceItems[caller]) :
            profiles \in {<<>>} \cup {<<ProfileOf(RaceAuthor[caller], areas, focus)>> :
                                        areas \in 1..2, focus \in 0..1}}]

InitRace == MemoryOnly

NextRace == UpdateReadStep(RaceData) \/ UpdateWriteStep

SpecRace == InitRace /\ [][NextRace]_vars

\* both calls have returned
BothDone == DOMAIN calls = Callers /\ \A caller \in Callers : calls[caller].pc = "done"

\* the caller that wrote last, and the other one
LastWriter == CHOOSE caller \in Callers : calls[caller].wroteAt = CallSteps(calls)

FirstWriter == CHOOSE caller \in Callers : caller # LastWriter

\* the context stored under the date key of the calls
RaceContext == kv[ContextKey(getDateKey(now))].ctx

\* the history entry a caller pushes
RaceEntry(caller) == HistoryEntry(getDateKey(now), calls[caller].data.action_items)

\* the stored context holds the profiles the caller came with
HoldsProfilesOf(caller) ==
    \A i \in DOMAIN calls[caller].data.contributors :
        LET profile == calls[caller].data.contributors[i]
        IN  /\ profile.id \in DOMAIN RaceContext.contributor_profiles
            /\ RaceContext.contributor_profiles[profile.id] = profile

\* C15: two update calls on one date key race on read-modify-write. When the
\* reads and writes interleave, the stored context is exactly the one written
\* last, without the other call's history entry and profiles; when one call
\* follows the other, the stored context holds the history entries and the
\* profiles of both.
C15_LastWriteWins ==
    BothDone =>
        /\ RaceContext = calls[LastWriter].context
        /\ HoldsProfilesOf(LastWriter)
        /\ IF calls[LastWriter].readAt > calls[FirstWriter].wroteAt
           THEN /\ RaceContext.action_items_history
                       = <<RaceEntry(FirstWriter), RaceEntry(LastWriter)>>
                /\ HoldsProfilesOf(FirstWriter)
           ELSE /\ RaceContext.action_items_history = <<RaceEntry(LastWriter)>>
                /\ \A i \in DOMAIN calls[FirstWriter].data.contributors :
                       calls[FirstWriter].data.contributors[i].id
                           \notin DOMAIN RaceContext.contributor_profiles

\* the calls interleaved, and the profile and the history entry of the one
\* that wrote first are lost
C15_Witness ==
    /\ BothDone
    /\ calls[LastWriter].readAt < calls[FirstWriter].wroteAt
    /\ Len(calls[FirstWriter].data.contributors) = 1
    /\ Len(calls[LastWriter].data.contributors) = 1
    /\ ~HoldsProfilesOf(FirstWriter)
    /\ RaceEntry(FirstWriter) \notin Range(RaceContext.action_items_history)

\* one call followed the other, and the stored context holds both profiles
C15_SequentialWitness ==
    /\ BothDone
    /\ calls[LastWriter].readAt > calls[FirstWriter].wroteAt
    /\ Cardinality(DOMAIN RaceContext.contributor_profiles) = 2

(***************************************************************************)
(* Runs of the Agent over a store whose kv.set may fail                    *)
(***************************************************************************)
MaxFaultyDays == 2

\* the store refuses to write
SetFaults == [get |-> FALSE, delete |-> FALSE, set |-> TRUE]

InitAgentFaulty == MemoryOnly

NextAgentFaulty ==
    \/ AgentProcessedRun(RunData)
    \/ AgentReportStep(BOOLEAN, {NoFaults, SetFaults})
    \/ AgentUpdateStep({NoFaults, SetFaults})
    \/ AgentStoreStep({NoFaults, SetFaults})
    \/ AgentPostStep(PostOutcomes)
    \/ AgentNextDay(FirstNow + (MaxFaultyDays - 1) * HoursPerDay)

SpecAgentFaulty == InitAgentFaulty /\ [][NextAgentFaulty]_vars

\* C16: a failure of kv.set during the memory update or during storeReport
\* does not abort the run: the run still reaches the posting of the report,
\* and the error response comes from nothing the store does.
C16_SetFailureDoesNotAbort ==
    agent.pc = "responded" => agent.posted # "none"

(***************************************************************************)
(* Pass 1 over tracker issues with like identifiers, and with none         *)
(***************************************************************************)
MaxTrackerBatch == 3

LIN_4 == <<"L","I","N","-","4">>

\* pull requests that name LIN-42 by its short code, by its URL and not at
\* all, and the tracker issues LIN-42, LIN-4 and one without an identifier
TrackerPool ==
    { [BaseEvent(<<"g","1">>, GITHUB, PR_OPENED, DEV, 9, <<"C","a","c","h","e">>)
          EXCEPT !.description = <<"f","i","x","e","s"," ","L","I","N","-","4","2">>],
      [BaseEvent(<<"g","2">>, GITHUB, PR_OPENED, DEV, 8, <<"L","o","g","s">>)
          EXCEPT !.description = <<"s","e","e"," ","l","i","n","e","a","r",".","a","p","p","/",
                                   "a","c","m","e","/","L","I","N","-","4","2">>],
      BaseEvent(<<"g","3">>, GITHUB, PR_OPENED, DEV, 7, <<"T","y","p","o","s">>),
      [BaseEvent(<<"l","1">>, LINEAR, ISSUE_CREATED, ACME, 6, <<"c","a","c","h","e">>)
          EXCEPT !.metadata = [NoMetadata EXCEPT !.identifier = LIN_42, !.issue_id = <<"i","1">>]],
      [BaseEvent(<<"l","2">>, LINEAR, ISSUE_CREATED, ACME, 5, <<"l","o","g","i","n">>)
          EXCEPT !.metadata = [NoMetadata EXCEPT !.identifier = LIN_4, !.issue_id = <<"i","2">>]],
      BaseEvent(<<"l","3">>, LINEAR, ISSUE_CREATED, ACME, 4, <<"d","o","c","s">>) }

InitTracker == \E events \in SeqsUpTo(TrackerPool, MaxTrackerBatch) : StartOf(events)

NextTracker == NormalizeStep \/ FindCorrelationsStep({RefsFailure})

SpecTracker == InitTracker /\ [][NextTracker]_vars

\* the references pass 1 extracts from the title and description of the PR
ExtractedReferences(prEvent) ==
    Range(LinearRefs(ToLowerCase(EventText(prEvent))))
        \cup Range(LinearUrls(ToLowerCase(EventText(prEvent))))

\* the reference names the identifier, in any case: a short code is the
\* identifier, a URL holds it as one of its path segments
NamesIdentifier(reference, identifier) ==
    \/ ToLowerCase(reference) = ToLowerCase(identifier)
    \/ /\ Includes(reference, LINEAR_APP)
       /\ \E i \in 1..Len(reference) :
              /\ MatchesAt(ToLowerCase(reference), ToLowerCase(identifier), i)
              /\ i > 1 /\ reference[i - 1] = "/"
              /\ i + Len(identifier) > Len(reference) \/ reference[i + Len(identifier)] = "/"

\* C17: pass 1 correlates a PR event with a tracker event only if a reference
\* extracted from the PR's title and description matches the tracker event's
\* identifier or id, whatever the case; a tracker event without an identifier,
\* or whose identifier differs from every extracted reference, is never
\* correlated with the PR.
C17_OnlyReferencedIssues ==
    pc = "correlated" =>
        \A i \in DOMAIN correlations :
            correlations[i].type = "pr_to_linear" =>
                \A p, l \in Range(normalizedEvents) :
                    correlations[i].events = <<p.id, l.id>> =>
                        /\ LinearIdOf(l) # Undefined
                        /\ \E reference \in ExtractedReferences(p) :
                               \/ NamesIdentifier(reference, LinearIdOf(l))
                               \/ NamesIdentifier(reference, l.id)

(***************************************************************************)
(* Pass 3 over more keywords than it returns                               *)
(***************************************************************************)
MaxCrossBatch == 4

\* events of four platforms that name eleven words, each word once an event:
\* a pull request, a chat message that names them from the last to the first,
\* a tracker issue, and two messages that name the last word and another
CrossPool ==
    { BaseEvent(<<"g","1">>, GITHUB, PR_OPENED, DEV, 9,
                TopicText(<<1, 2, 3, 4, 5, 6, 7, 8, 9, 10, 11>>, 1)),
      BaseEvent(<<"s","1">>, SLACK, MESSAGE_SENT, DEV, 8,
                TopicText(<<11, 10, 9, 8, 7, 6, 5, 4, 3, 2, 1>>, 1)),
      BaseEvent(<<"l","1">>, LINEAR, ISSUE_CREATED, ACME, 7,
                TopicText(<<1, 2, 3, 4, 5, 6, 7, 8, 9, 10, 11>>, 1)),
      BaseEvent(<<"d","1">>, DISCORD, MESSAGE_SENT, ACME, 6, TopicText(<<11, 2>>, 1)),
      BaseEvent(<<"d","2">>, DISCORD, MESSAGE_SENT, DEV, 5, TopicText(<<11, 12>>, 1)) }

InitCross == \E events \in SeqsUpTo(CrossPool, MaxCrossBatch) : StartOf(events)

NextCross == NormalizeStep \/ FindCorrelationsStep({RefsFailure})

SpecCross == InitCross /\ [][NextCross]_vars

\* the normalised events that hold the keyword
EventsHolding(keyword) ==
    {e \in Range(normalizedEvents) : HoldsWord(EventText(e), keyword)}

\* the keyword is in at least 3 events of at least 2 platforms
QualifiesForPass3(keyword) ==
    /\ Cardinality(EventsHolding(keyword)) >= 3
    /\ Cardinality({e.type : e \in EventsHolding(keyword)}) >= 2

\* the keywords in the order in which a scan of the events comes across them
ScanOrder ==
    Distinct(Concat([i \in DOMAIN normalizedEvents |->
                        Words4(ToLowerCase(EventText(normalizedEvents[i])))]))

\* the keywords of the pass-3 correlations returned, in order
CrossKeywords ==
    LET cross == OfKind(correlations, "cross_platform_discussion")
    IN  [i \in DOMAIN cross |-> cross[i].keywords[1]]

\* C19: pass 3 returns at most 10 correlations, at most one per keyword, and
\* of the qualifying keywords those that the scan of the events comes across
\* first, whatever their confidence.
C19_FirstTenKeywords ==
    pc = "correlated" =>
        /\ Len(CrossKeywords) <= 10
        /\ Cardinality(Range(CrossKeywords)) = Len(CrossKeywords)
        /\ CrossKeywords = SliceFirst(SelectSeq(ScanOrder, QualifiesForPass3), 10)

\* eleven keywords qualify, and the one left out has a higher confidence than
\* one that is returned
C19_Witness ==
    /\ pc = "correlated"
    /\ Len(SelectSeq(ScanOrder, QualifiesForPass3)) > 10
    /\ Len(CrossKeywords) = 10
    /\ \E keyword \in Range(ScanOrder) \ Range(CrossKeywords) :
           /\ QualifiesForPass3(keyword)
           /\ \E i \in DOMAIN correlations :
                  /\ correlations[i].type = "cross_platform_discussion"
                  /\ correlations[i].confidence < Cardinality(EventsHolding(keyword))

(***************************************************************************)
(* The fallback of the contributor analysis                                *)
(***************************************************************************)
MaxFallbackBatch == 4

\* events of DEV on four platforms, two of them on one, and an event of ACME
FallbackPool ==
    { BaseEvent(<<"g","1">>, GITHUB, PR_OPENED, DEV, 9, <<"o","n","e">>),
      BaseEvent(<<"s","1">>, SLACK, MESSAGE_SENT, DEV, 8, <<"t","w","o">>),
      BaseEvent(<<"s","2">>, SLACK, MESSAGE_SENT, DEV, 7, <<"t","h","r","e","e">>),
      BaseEvent(<<"l","1">>, LINEAR, ISSUE_CREATED, DEV, 6, <<"f","o","u","r">>),
      BaseEvent(<<"d","1">>, DISCORD, MESSAGE_SENT, DEV, 5, <<"f","i","v","e">>),
      BaseEvent(<<"d","2">>, DISCORD, MESSAGE_SENT, ACME, 4, <<"s","i","x">>) }

\* an empty memory, and one that knows DEV since yesterday
FallbackStores == {<<>>, StoreWith(1, <<ProfileOf(DEV, 2, 1)>>)}

InitFallback ==
    \E events \in SeqsUpTo(FallbackPool, MaxFallbackBatch), store \in FallbackStores :
        StartOver(events, store)

NextFallback ==
    \/ NormalizeStep
    \/ FindCorrelationsStep({RefsFailure})
    \/ BuildContributorProfilesStep({AnalysisFailure, Analysis(1, 1)})

SpecFallback == InitFallback /\ [][NextFallback]_vars

\* the events of the batch by the author
EventsBy(authorId) ==
    {j \in DOMAIN normalizedEvents : normalizedEvents[j].author.id = authorId}

\* how many of them are of the platform
EventsOn(authorId, platform) ==
    Cardinality({j \in EventsBy(authorId) : normalizedEvents[j].type = platform})

\* the profile memory holds for the author, if any
Remembered(authorId) ==
    {kv[key].ctx.contributor_profiles[authorId] :
        key \in {k \in DOMAIN kv : authorId \in DOMAIN kv[k].ctx.contributor_profiles}}

\* C20: when the analysis call fails for an author, the profile lists as
\* preferred platforms the at most 3 platforms with the most events of the
\* author in the batch, in descending order of their counts, has the author's
\* number of events as avgDailyEvents, and keeps the expertise areas and
\* recent focus it had before the call (empty for a new profile); the
\* profiles of the other authors hold what the collaborator answered.
C20_FallbackProfile ==
    pc = "profiled" =>
        \A i \in DOMAIN contributors :
            LET profile == contributors[i]
                preferred == profile.activity_patterns.preferred_platforms
                platforms == {normalizedEvents[j].type : j \in EventsBy(profile.id)}
            IN  IF llm.traits[i] = "failed"
                THEN /\ Len(preferred) = (IF Cardinality(platforms) < 3
                                          THEN Cardinality(platforms) ELSE 3)
                     /\ Range(preferred) \subseteq platforms
                     /\ Cardinality(Range(preferred)) = Len(preferred)
                     /\ \A a, b \in DOMAIN preferred :
                            a < b => EventsOn(profile.id, preferred[a])
                                         >= EventsOn(profile.id, preferred[b])
                     /\ \A a \in DOMAIN preferred, platform \in platforms \ Range(preferred) :
                            EventsOn(profile.id, preferred[a]) >= EventsOn(profile.id, platform)
                     /\ profile.activity_patterns.avg_daily_events
                            = Cardinality(EventsBy(profile.id))
                     /\ IF Remembered(profile.id) = {}
                        THEN profile.expertise_areas = <<>> /\ profile.recent_focus = <<>>
                        ELSE \E before \in Remembered(profile.id) :
                                 /\ profile.expertise_areas = before.expertise_areas
                                 /\ profile.recent_focus = before.recent_focus
                ELSE /\ preferred = Analysis(1, 1).object.preferred_platforms
                     /\ profile.activity_patterns.avg_daily_events
                            = Analysis(1, 1).object.avg_daily_events
                     /\ profile.expertise_areas = Analysis(1, 1).object.expertise_areas
                     /\ profile.recent_focus = Analysis(1, 1).object.recent_focus

\* the call failed for DEV, known to memory, who has one event on the first
\* platform met and two on the second, and was answered for ACME
C20_Witness ==
    /\ pc = "profiled"
    /\ Len(contributors) = 2
    /\ \E i, j \in DOMAIN contributors :
           /\ contributors[i].id = DEV
           /\ llm.traits[i] = "failed"
           /\ llm.traits[j] = "answered"
           /\ contributors[i].activity_patterns.preferred_platforms = <<SLACK, GITHUB>>
           /\ contributors[i].activity_patterns.avg_daily_events = 3
           /\ Len(contributors[i].expertise_areas) = 2
           /\ normalizedEvents[1].type = GITHUB

\* the call failed for an author with events on four platforms
C20_CapWitness ==
    /\ pc = "profiled"
    /\ \E i \in DOMAIN contributors :
           /\ llm.traits[i] = "failed"
           /\ Cardinality({normalizedEvents[j].type : j \in EventsBy(contributors[i].id)}) = 4
           /\ Len(contributors[i].activity_patterns.preferred_platforms) = 3

(***************************************************************************)
(* The fallback of identifyActionItems over events of every kind           *)
(***************************************************************************)
MaxFallbackEvents == 3

\* pull requests that wait for a review, of high and of medium priority, with
\* and without assignees, and events of high or urgent priority that are not
\* review requests
ReviewPool ==
    { [BaseEvent(<<"p","1">>, GITHUB, PR_REVIEW_REQUESTED, DEV, 101, <<"o","n","e">>)
          EXCEPT !.priority = PRIORITY_HIGH, !.assignees = <<DEV, ACME>>],
      [BaseEvent(<<"p","2">>, GITHUB, PR_REVIEW_REQUESTED, DEV, 102, <<"t","w","o">>)
          EXCEPT !.priority = PRIORITY_HIGH, !.assignees = UndefinedList],
      [BaseEvent(<<"p","3">>, GITHUB, PR_REVIEW_REQUESTED, DEV, 103, <<"t","r","e">>)
          EXCEPT !.assignees = <<ACME>>],
      [BaseEvent(<<"p","4">>, GITHUB, PR_REVIEW_REQUESTED, ACME, 104, <<"f","o","r">>)
          EXCEPT !.priority = PRIORITY_URGENT, !.assignees = <<DEV>>],
      [BaseEvent(<<"p","5">>, GITHUB, PR_OPENED, ACME, 105, <<"f","i","v">>)
          EXCEPT !.priority = PRIORITY_HIGH, !.assignees = <<DEV>>],
      UrgentIssue }

InitReviewFallback ==
    \E events \in SeqsUpTo(ReviewPool, MaxFallbackEvents), n \in {0, ActionItemLimit + 1} :
        StartOf(ReviewBatch(n) \o events)

NextReviewFallback ==
    \/ NormalizeStep
    \/ FindCorrelationsStep({RefsFailure})
    \/ BuildContributorProfilesStep({AnalysisFailure})
    \/ IdentifyActionItemsStep(ItemAnswers(normalizedEvents, 1))

SpecReviewFallback == InitReviewFallback /\ [][NextReviewFallback]_vars

\* the positions of the review requests of high priority
HighReviews ==
    {i \in DOMAIN normalizedEvents :
        /\ normalizedEvents[i].subtype = <<"p","r","_","r","e","v","i","e","w","_",
                                           "r","e","q","u","e","s","t","e","d">>
        /\ normalizedEvents[i].priority = <<"h","i","g","h">>}

\* the k-th of them
HighReview(k) ==
    normalizedEvents[CHOOSE i \in HighReviews :
                         Cardinality({j \in HighReviews : j < i}) = k - 1]

\* C21: when the action-item call fails, identifyActionItems returns one item
\* of type review_needed for each event of subtype pr_review_requested and
\* priority high, in the order of the events and up to 20 of them, whose
\* description names the assignees of the event, and no other item.
C21_FallbackItemsAreHighReviews ==
    (pc = "identified" /\ llm.items = "failed") =>
        /\ Len(actionItems) = (IF Cardinality(HighReviews) < 20
                               THEN Cardinality(HighReviews) ELSE 20)
        /\ \A k \in DOMAIN actionItems :
               /\ actionItems[k].id = <<"a","c","t","i","o","n","_">> \o HighReview(k).id
               /\ actionItems[k].type = "review_needed"
               /\ actionItems[k].platform = HighReview(k).type
               /\ \A a \in DOMAIN HighReview(k).assignees :
                      Includes(actionItems[k].description, HighReview(k).assignees[a])

\* the call failed over a batch that holds a review request of high priority
\* with two assignees next to review requests of other priorities and an
\* event of high priority that is no review request
C21_Witness ==
    /\ pc = "identified"
    /\ llm.items = "failed"
    /\ Len(actionItems) = 1
    /\ Includes(actionItems[1].description, <<"d","e","v",","," ","a","c","m","e">>)
    /\ Len(normalizedEvents) = 3
    /\ \E i, j \in DOMAIN normalizedEvents :
           /\ normalizedEvents[i].subtype = PR_REVIEW_REQUESTED
           /\ normalizedEvents[i].priority # PRIORITY_HIGH
           /\ normalizedEvents[j].subtype # PR_REVIEW_REQUESTED
           /\ normalizedEvents[j].priority = PRIORITY_HIGH

(***************************************************************************)
(* The items of the collaborator and the events they name                  *)
(***************************************************************************)
MaxConvertedBatch == 3

\* events with their own url, repository and project; the last is of medium
\* priority and so is not in the sample the collaborator is shown
ConvertedPool ==
    { [BaseEvent(<<"g","1">>, GITHUB, PR_OPENED, DEV, 11, <<"o","n","e">>)
          EXCEPT !.priority = PRIORITY_HIGH, !.url = <<"u","1">>, !.repository = <<"w","e","b">>],
      [BaseEvent(<<"l","1">>, LINEAR, ISSUE_CREATED, ACME, 12, <<"t","w","o">>)
          EXCEPT !.priority = PRIORITY_URGENT, !.url = <<"u","2">>, !.project = <<"c","o","r","e">>],
      [BaseEvent(<<"s","1">>, SLACK, MESSAGE_SENT, DEV, 13, <<"t","r","e">>)
          EXCEPT !.url = <<"u","3">>] }

\* the ids the collaborator can name: those of the pool and one of no event
NamedIds == {e.id : e \in ConvertedPool} \cup {<<"x","9">>}

\* the title of the item at a position of an answer
PositionTitle(i) == <<"i","t","e","m">> \o NumToString(i)

\* the answers of one and of two items
NamingAnswers ==
    {ItemsFailure}
    \cup {[ok |-> TRUE,
           object |-> [action_items |->
               [i \in DOMAIN ids |-> [ItemAbout(ids[i], "blocked")
                                         EXCEPT !.title = PositionTitle(i)]]]] :
             ids \in SeqsUpTo(NamedIds, 2) \ {<<>>}}

InitConverted ==
    \E events \in SeqsUpTo(ConvertedPool, MaxConvertedBatch) : StartOf(events)

NextConverted ==
    \/ NormalizeStep
    \/ FindCorrelationsStep({RefsFailure})
    \/ BuildContributorProfilesStep({AnalysisFailure})
    \/ IdentifyActionItemsStep(NamingAnswers)

SpecConverted == InitConverted /\ [][NextConverted]_vars

\* C22: on the primary path every returned action item is about an event of
\* the normalized set, an item of the collaborator that names no such event
\* being dropped, and has the url, the timestamp, the platform, the repository
\* and the project of that event.
C22_ItemsReferToNormalizedEvents ==
    (pc = "identified" /\ llm.items = "answered") =>
        \A k \in DOMAIN actionItems :
            \E i \in DOMAIN normalizedEvents :
                /\ actionItems[k].id = <<"a","c","t","i","o","n","_">> \o normalizedEvents[i].id
                /\ actionItems[k].url = normalizedEvents[i].url
                /\ actionItems[k].created_at = normalizedEvents[i].timestamp
                /\ actionItems[k].platform = normalizedEvents[i].type
                /\ actionItems[k].repository = normalizedEvents[i].repository
                /\ actionItems[k].project = normalizedEvents[i].project

\* of an answer of two items the first, which names no event of the batch,
\* was dropped and the second, about the tracker issue, was kept
C22_Witness ==
    /\ pc = "identified"
    /\ llm.items = "answered"
    /\ Len(actionItems) = 1
    /\ actionItems[1].title = PositionTitle(2)
    /\ actionItems[1].url = <<"u","2">>
    /\ actionItems[1].project = <<"c","o","r","e">>
    /\ actionItems[1].platform = LINEAR

(***************************************************************************)
(* The profiles of a date key over repeated updates                        *)
(***************************************************************************)
MaxMergeUpdates == 3

MaxMergeDay == FirstNow + HoursPerDay

\* two profiles of DEV and two of ACME
MergeProfilePool ==
    {ProfileOf(id, areas, 1) : id \in {DEV, ACME}, areas \in 1..2}

\* runs with no contributor, with one, and with two of different ids
MergeRuns ==
    {ProcessedOf(<<>>, profiles, <<>>) :
        profiles \in {ps \in SeqsUpTo(MergeProfilePool, 2) :
                         \A i, j \in DOMAIN ps : i # j => ps[i].id # ps[j].id}}

InitMerge == MemoryOnly

NextMerge ==
    \/ UpdateDailyContextCall(MergeRuns, {NoFaults}, MaxMergeUpdates)
    \/ Tick(MaxMergeDay)

SpecMerge == InitMerge /\ [][NextMerge]_vars

\* the profiles the store holds under the context key of the date, none when
\* it holds no context
ProfilesAt(store, date) ==
    IF ContextKey(date \div 24) \in DOMAIN store
    THEN store[ContextKey(date \div 24)].ctx.contributor_profiles
    ELSE <<>>

\* C23: an update stores, for every contributor id of processedData, the
\* profile processedData holds, and leaves the profile of every other id of
\* the date's context as it was; the context holds one profile per id seen in
\* any update of the date, the latest.
C23_UpdateOverwritesById ==
    (mem.op = "updateDailyContext" /\ ~mem.result.threw) =>
        LET before == ProfilesAt(mem.before, mem.date)
            after == ProfilesAt(kv, mem.date)
            given == mem.data.contributors
            ids == {given[i].id : i \in DOMAIN given}
        IN  /\ DOMAIN after = DOMAIN before \cup ids
            /\ \A i \in DOMAIN given : after[given[i].id] = given[i]
            /\ \A id \in DOMAIN before \ ids : after[id] = before[id]

\* the third update of a day replaced the profile of DEV by another one and
\* left the profile of ACME, stored by an earlier update
C23_Witness ==
    /\ mem.op = "updateDailyContext"
    /\ (mem.date \div 24) \in DOMAIN appended
    /\ Len(appended[mem.date \div 24]) = 3
    /\ Len(mem.data.contributors) = 1
    /\ mem.data.contributors[1].id = DEV
    /\ {DEV, ACME} \subseteq DOMAIN ProfilesAt(mem.before, mem.date)
    /\ ProfilesAt(mem.before, mem.date)[DEV] # ProfilesAt(kv, mem.date)[DEV]
    /\ ProfilesAt(kv, mem.date)[ACME] = ProfilesAt(mem.before, mem.date)[ACME]

(***************************************************************************)
(* The project relationships of a date key over repeated updates           *)
(***************************************************************************)
MaxRelationUpdates == 3

MaxRelationBatch == 1

\* an event of the repository, the project and the channel
RelationEvent(id, repository, project, channel) ==
    [BaseEvent(id, GITHUB, PR_OPENED, DEV, 1, <<"t">>)
        EXCEPT !.repository = repository, !.project = project, !.channel = channel]

\* events that carry a repository with a project, with a channel and with
\* both, and one whose project is named like the key of a repository
RelationPool ==
    { RelationEvent(<<"e","1">>, <<"w","e","b">>, <<"c","o","r","e">>, Undefined),
      RelationEvent(<<"e","2">>, <<"w","e","b">>, Undefined, <<"d","e","v">>),
      RelationEvent(<<"e","3">>, <<"a","p","i">>, <<"c","o","r","e">>, <<"d","e","v">>),
      RelationEvent(<<"e","7">>, <<"a","p","i">>, <<"r","e","p","o",":","w","e","b">>, <<"o","p","s">>) }

RelationRuns ==
    {ProcessedOf(events, <<>>, <<>>) : events \in SeqsUpTo(RelationPool, MaxRelationBatch)}

InitRelations == MemoryOnly

NextRelations == UpdateDailyContextCall(RelationRuns, {NoFaults}, MaxRelationUpdates)

SpecRelations == InitRelations /\ [][NextRelations]_vars

\* the relationships the store holds under the context key of the date
RelationshipsAt(store, date) ==
    IF ContextKey(date \div 24) \in DOMAIN store
    THEN store[ContextKey(date \div 24)].ctx.project_relationships
    ELSE <<>>

\* does the event carry the value: a string that is not empty
Carries(x) == x # <<"undefined">> /\ Len(x) > 0

\* C24: after every update of a date key no list of project_relationships
\* holds a member twice, the repository of every event of the batch that
\* carries a repository and a project is in the list of the project, the
\* channel of every event that carries a repository and a channel is in the
\* list of repo:<repository>, and every list holds the members it held
\* before, in their order.
C24_RelationshipsGrowWithoutDuplicates ==
    (mem.op = "updateDailyContext" /\ ~mem.result.threw) =>
        LET before == RelationshipsAt(mem.before, mem.date)
            after == RelationshipsAt(kv, mem.date)
            events == mem.data.events
        IN  /\ \A key \in DOMAIN after :
                   \A i, j \in DOMAIN after[key] : i # j => after[key][i] # after[key][j]
            /\ \A i \in DOMAIN events :
                   /\ (Carries(events[i].repository) /\ Carries(events[i].project)) =>
                          /\ events[i].project \in DOMAIN after
                          /\ \E k \in DOMAIN after[events[i].project] :
                                 after[events[i].project][k] = events[i].repository
                   /\ (Carries(events[i].repository) /\ Carries(events[i].channel)) =>
                          /\ (<<"r","e","p","o",":">> \o events[i].repository) \in DOMAIN after
                          /\ \E k \in DOMAIN after[<<"r","e","p","o",":">> \o events[i].repository] :
                                 after[<<"r","e","p","o",":">> \o events[i].repository][k]
                                     = events[i].channel
            /\ \A key \in DOMAIN before :
                   /\ key \in DOMAIN after
                   /\ Len(after[key]) >= Len(before[key])
                   /\ SubSeq(after[key], 1, Len(before[key])) = before[key]

\* the third update of a day brought an edge the context held since the
\* first, after the second had added a member to the same list
C24_Witness ==
    /\ mem.op = "updateDailyContext"
    /\ (mem.date \div 24) \in DOMAIN appended
    /\ Len(appended[mem.date \div 24]) = 3
    /\ <<"c","o","r","e">> \in DOMAIN RelationshipsAt(mem.before, mem.date)
    /\ RelationshipsAt(mem.before, mem.date)[<<"c","o","r","e">>] = << <<"w","e","b">>, <<"a","p","i">> >>
    /\ RelationshipsAt(kv, mem.date)[<<"c","o","r","e">>] = << <<"w","e","b">>, <<"a","p","i">> >>
    /\ Len(mem.data.events) = 1
    /\ mem.data.events[1].id = <<"e","1">>

(***************************************************************************)
(* MemoryService.cleanup                                                   *)
(***************************************************************************)
\* cutoffDate.setDate(cutoffDate.getDate() - 7)
CleanupDays == 7

\* a cleanup that deletes every context dated at the cutoff or before it
CleanupThroughCutoff(store, now_, faults) ==
    LET oldDateKey == getDateKey(DaysBefore(now_, CleanupDays))
        old == {key \in DOMAIN store : key[1] = "context:" /\ key[2] <= oldDateKey}
    IN  [store |-> IF faults.delete THEN store
                   ELSE [key \in DOMAIN store \ old |-> store[key]],
         threw |-> FALSE,
         calls |-> <<KvCall("delete", ContextKey(oldDateKey), faults.delete)>>]

\* cleanup() with the clock at now: [store, threw, calls]; the failure of the
\* delete is caught and logged
cleanup(store, now_, faults) ==
    LET oldDateKey == getDateKey(DaysBefore(now_, CleanupDays))
    IN  [store |-> KvDelete(store, ContextKey(oldDateKey), faults.delete).store,
         threw |-> FALSE,
         calls |-> <<KvCall("delete", ContextKey(oldDateKey), faults.delete)>>]

\* cleanup()
CleanupCall(faultPool) ==
    /\ \E faults \in faultPool :
           LET result == cleanup(kv, now, faults)
           IN  /\ kv' = result.store
               /\ mem' = [op |-> "cleanup", date |-> now, before |-> kv,
                          faults |-> faults, result |-> result]
    /\ UNCHANGED <<processVars, now, appended, agent, calls>>

\* storeReport(report) for a report made now, while the store holds fewer
\* than maxReports reports
StoreReportCall(maxReports) ==
    /\ Cardinality({key \in DOMAIN kv : key[1] = "report:"}) < maxReports
    /\ LET result == storeReport(kv, [date |-> now, fallback |-> FALSE], NoFaults)
       IN  /\ kv' = result.store
           /\ mem' = [op |-> "storeReport", date |-> now, before |-> kv,
                      faults |-> NoFaults, result |-> result]
    /\ UNCHANGED <<processVars, now, appended, agent, calls>>

MaxCleanupUpdates == 2

MaxCleanupReports == 1

MaxCleanupDays == 8

DeleteFaults == [get : {FALSE}, delete : BOOLEAN, set : {FALSE}]

InitCleanup == MemoryOnly

NextCleanup ==
    \/ UpdateDailyContextCall({ProcessedOf(<<>>, <<>>, <<>>)}, {NoFaults}, MaxCleanupUpdates)
    \/ StoreReportCall(MaxCleanupReports)
    \/ Tick(FirstNow + MaxCleanupDays * HoursPerDay)
    \/ CleanupCall(DeleteFaults)

SpecCleanup == InitCleanup /\ [][NextCleanup]_vars

\* the day the cleanup was called on
CleanupDay == mem.date \div 24

C25_FailedDeleteWitness ==
    /\ mem.op = "cleanup"
    /\ mem.faults.delete
    /\ ~mem.result.threw
    /\ <<"context:", CleanupDay - 7>> \in DOMAIN kv

(***************************************************************************)
(* The previous report of runs on consecutive days                         *)
(***************************************************************************)
MaxReportDays == 3

InitReports == MemoryOnly

NextReports ==
    \/ AgentProcessedRun(RunData)
    \/ AgentReportStep(BOOLEAN, {NoFaults, SetFaults})
    \/ AgentUpdateStep({NoFaults, SetFaults})
    \/ AgentStoreStep({NoFaults, SetFaults})
    \/ AgentPostStep(PostOutcomes)
    \/ AgentNextDay(FirstNow + MaxReportDays * HoursPerDay)

SpecReports == InitReports /\ [][NextReports]_vars

\* the report the store holds for the day, if any
StoredReport(day) ==
    IF <<"report:", day>> \in DOMAIN kv
    THEN [found |-> TRUE, report |-> kv[<<"report:", day>>].ctx]
    ELSE [found |-> FALSE, report |-> NoReport]

\* C26: the previous report recalled while the report of a day is generated
\* is the report the run of the day before stored, and none when that run
\* stored none.
C26_PreviousReportIsOfTheDayBefore ==
    agent.pc = "reported" => agent.previous = StoredReport((now \div 24) - 1)

\* what the run recalls is the report stored two days before
C26_RecalledIsOfTwoDaysBefore ==
    agent.pc = "reported" => agent.previous = StoredReport((now \div 24) - 2)

\* a run recalled the report of two days before
C26_TwoDaysBeforeWitness ==
    /\ agent.pc = "reported"
    /\ agent.previous.found
    /\ agent.previous.report.date \div 24 = (now \div 24) - 2
    /\ StoredReport((now \div 24) - 1).found

(***************************************************************************)
(* Reads of valid contexts over a store whose read may fail                *)
(***************************************************************************)
MaxReadStores == 2

MaxReadDays == 2

InitReadFaulty == MemoryOnly

NextReadFaulty ==
    \/ UpdateDailyContextCall(RecallPool, {NoFaults}, MaxReadStores)
    \/ Tick(FirstNow + MaxReadDays * HoursPerDay)
    \/ GetContextCall({now}, ReadFaults)
    \/ GetContributorProfileCall({DEV}, ReadFaults)

SpecReadFaulty == InitReadFaulty /\ [][NextReadFaulty]_vars

\* the stored value is a context: it parses and passes the schema
IsValidContext(data) ==
    /\ data.kind \in {"json", "object"}
    /\ \A id \in DOMAIN data.ctx.contributor_profiles :
           /\ Len(data.ctx.contributor_profiles[id].expertise_areas) <= 5
           /\ Len(data.ctx.contributor_profiles[id].recent_focus) <= 3

\* C27: getContext and getContributorProfile delete no context whose stored
\* value is valid, also when the read of the store fails: every valid context
\* the store held before the call is there after it.
C27_ValidContextIsNeverDeleted ==
    mem.op \in {"getContext", "getContributorProfile"} =>
        \A key \in DOMAIN mem.before :
            (key[1] = "context:" /\ IsValidContext(mem.before[key])) =>
                key \in DOMAIN kv /\ kv[key] = mem.before[key]

(***************************************************************************)
(* The ids of the normalized events                                        *)
(***************************************************************************)
MaxIdBatch == 3

\* a pull request, an event with its id and another timestamp, a pull request
\* of another id with the key of the first, and a message
IdPool ==
    { BaseEvent(<<"g","1">>, GITHUB, PR_OPENED, DEV, 2, <<"o","n","e">>),
      BaseEvent(<<"g","1">>, GITHUB, PR_OPENED, DEV, 5, <<"o","n","e">>),
      BaseEvent(<<"g","2">>, GITHUB, PR_OPENED, DEV, 2, <<"t","w","o">>),
      BaseEvent(<<"s","1">>, SLACK, MESSAGE_SENT, ACME, 2, <<"t","r","e">>) }

InitIds == \E events \in SeqsUpTo(IdPool, MaxIdBatch) : StartOf(events)

NextIds == NormalizeStep \/ FindCorrelationsStep({RefsFailure})

SpecIds == InitIds /\ [][NextIds]_vars

\* in the input, events of one id have one dedup key
KeysFollowIds ==
    \A i, j \in DOMAIN AllEvents(rawData) :
        AllEvents(rawData)[i].id = AllEvents(rawData)[j].id
            => DedupKey(AllEvents(rawData)[i]) = DedupKey(AllEvents(rawData)[j])

\* no two normalized events have the same id
IdsAreUnique ==
    \A a, b \in DOMAIN normalizedEvents :
        a # b => normalizedEvents[a].id # normalizedEvents[b].id

C28_SameIdKeptTwice ==
    /\ pc = "normalized"
    /\ ~IdsAreUnique

(***************************************************************************)
(* The event ids a correlation lists                                       *)
(***************************************************************************)
\* the ids of the normalized events
NormalizedIds == {normalizedEvents[i].id : i \in DOMAIN normalizedEvents}

\* C29: every correlation findCorrelations returns lists at least 2 distinct
\* event ids, each the id of an event of the normalized events it was handed,
\* whatever the reference-extraction call answered.
C29_CorrelationsListNormalizedEvents ==
    pc = "correlated" =>
        \A c \in DOMAIN correlations :
            /\ Cardinality(Range(correlations[c].events)) >= 2
            /\ Range(correlations[c].events) \subseteq NormalizedIds

(***************************************************************************)
(* The response of runs whose post to the chat platform may fail           *)
(***************************************************************************)
MaxPostDays == 2

InitPost == MemoryOnly

NextPost ==
    \/ AgentProcessedRun(RunData)
    \/ AgentReportStep(BOOLEAN, {NoFaults})
    \/ AgentUpdateStep({NoFaults})
    \/ AgentStoreStep({NoFaults})
    \/ AgentPostStep(PostOutcomes)
    \/ AgentNextDay(FirstNow + MaxPostDays * HoursPerDay)

SpecPost == InitPost /\ [][NextPost]_vars

\* C30: the Agent answers with its success response only when the post of the
\* report succeeded; a run whose post failed ends with the error response.
C30_SuccessOnlyWhenPosted ==
    agent.pc = "responded" =>
        /\ agent.response = "success" => agent.posted = "ok"
        /\ agent.posted \in {"failed", "threw"} => agent.response = "error"
====
